---- MODULE Spec2Model ----
(***************************************************************************)
(* Agent Assist Console: the query pipeline of server/app.                 *)
(*   POST /api/chat -> Orchestrator.process_query                          *)
(*     EXTRACTION -> RETRIEVAL -> SYNTHESIS_PREP -> SYNTHESIS -> FORMAT    *)
(* Strings are sequences of one-character strings, so that lower-casing,   *)
(* substring tests and identifier normalisation are computed and not       *)
(* assumed.  A confidence is kept in hundredths (100 is 1.0, 0 is 0.0).    *)
(***************************************************************************)
EXTENDS Integers, Sequences, FiniteSets, TLC

\* ------------------------------------------------------------------------
\* Bounds of the model
\* ------------------------------------------------------------------------
\* number of chat requests that may be in flight at once
NumRuns == 2

\* most words of a query of the single-run specification
MaxWords == 2

Runs == 1..NumRuns

\* Python's None
None == [none |-> TRUE]

\* ------------------------------------------------------------------------
\* Characters and strings
\* ------------------------------------------------------------------------
UpperChars == <<"A","B","C","D","E","F","G","H","I","J","K","L","M","N","O","P","Q","R","S","T","U","V","W","X","Y","Z">>
LowerChars == <<"a","b","c","d","e","f","g","h","i","j","k","l","m","n","o","p","q","r","s","t","u","v","w","x","y","z">>
DigitChars == <<"0","1","2","3","4","5","6","7","8","9">>

Range(s) == {s[i] : i \in DOMAIN s}

UpperSet == Range(UpperChars)
LowerSet == Range(LowerChars)
DigitSet == Range(DigitChars)
LetterSet == UpperSet \cup LowerSet
AlnumSet == LetterSet \cup DigitSet

\* the lower-case letter of each upper-case letter, and back
ToLower == [c \in UpperSet |-> LowerChars[CHOOSE i \in DOMAIN UpperChars : UpperChars[i] = c]]
ToUpper == [c \in LowerSet |-> UpperChars[CHOOSE i \in DOMAIN LowerChars : LowerChars[i] = c]]

\* str.lower() on one character
LowerChar(c) == IF c \in UpperSet THEN ToLower[c] ELSE c

\* str.upper() on one character
UpperChar(c) == IF c \in LowerSet THEN ToUpper[c] ELSE c

\* str.lower()
Lower(s) == [i \in DOMAIN s |-> LowerChar(s[i])]

\* str.upper()
Upper(s) == [i \in DOMAIN s |-> UpperChar(s[i])]

\* Python's `kw in s` on strings
Contains(s, kw) ==
    \E i \in 0..(Len(s) - Len(kw)) : SubSeq(s, i + 1, i + Len(kw)) = kw

\* any(keyword in s for keyword in kws)
ContainsAny(s, kws) == \E k \in DOMAIN kws : Contains(s, kws[k])

\* s[:n]
Take(s, n) == SubSeq(s, 1, IF Len(s) < n THEN Len(s) ELSE n)

IsAlnum(c) == c \in AlnumSet
IsLetter(c) == c \in LetterSet
IsDigit(c) == c \in DigitSet

\* ------------------------------------------------------------------------
\* Catalog Store and Identifier Matcher (services/data_loader.py)
\* ------------------------------------------------------------------------
\* the dict {} (a dict with keys is a record of them), the truth value of a
\* dict and of a list, and a str where None may stand instead
EmptyDict == [empty |-> TRUE]
TruthyDict(d) == d # EmptyDict
Truthy(s) == s # << >>
Str(s) == [str |-> s]

ModelCP == <<"1","0",".","F","G","C",".","4","0","0","3","C","P">>
ModelBN == <<"1","0",".","F","G","C",".","4","0","0","3","B","N">>

\* The products loaded by ProductDatabase.load_data.  specs is an ordered
\* dict (a sequence of key/value pairs); a media entry is a {title, url}
\* record or a bare string; the second product has no specs and no media.
LoadedCatalog ==
    << [model_number |-> ModelCP,
        specs |-> << [key |-> "Model_NO", value |-> "10.FGC.4003CP"],
                     [key |-> "List_Price", value |-> "450.00"],
                     [key |-> "Finish", value |-> "Chrome"] >>,
        media |-> [videos |-> << [kind |-> "dict", title |-> "Install", url |-> "v1"] >>,
                   images |-> << [kind |-> "str", value |-> "img1.jpg"] >>],
        documents |-> << [title |-> "Manual", type |-> "PDF", url |-> "d1"],
                         [title |-> "", type |-> "PDF", url |-> "d2"],
                         [title |-> "Spec Sheet", type |-> "PDF", url |-> "d3"] >>],
       [model_number |-> ModelBN,
        specs |-> << >>,
        media |-> [videos |-> << >>, images |-> << >>],
        documents |-> << >>] >>

\* a normaliser that strips the punctuation and keeps the letter case
NormalizeKeepCase(s) == SelectSeq(s, IsAlnum)

\* identifier with every non-alphanumeric character stripped, upper-cased
Normalize(s) == Upper(SelectSeq(s, IsAlnum))

\* shortest normalised identifier the matcher takes as a candidate
MinCandidateLen == 5
\* largest distance of a partial match
MaxDistance == 2
\* lowest confidence (hundredths) at which a partial match is accepted
MinConfidence == 80

IsIdChar(c) == IsAlnum(c) \/ c \in {".", "-"}

\* the positions at which a maximal run of identifier characters of s
\* starts, and those at which one ends
TokenStarts(s) ==
    { i \in DOMAIN s : IsIdChar(s[i]) /\ (i = 1 \/ ~IsIdChar(s[i - 1])) }
TokenEnds(s) ==
    { j \in DOMAIN s : IsIdChar(s[j]) /\ (j = Len(s) \/ ~IsIdChar(s[j + 1])) }

\* the maximal runs of identifier characters of s, each with its position
Tokens(s) ==
    { [pos |-> i,
       text |-> SubSeq(s, i, CHOOSE j \in ends : j >= i /\ \A k \in ends : k >= i => j <= k)] :
         i \in TokenStarts(s), ends \in {TokenEnds(s)} }

IsCandidate(tok) ==
    \E n \in {Normalize(tok)} :
        /\ Len(n) >= MinCandidateLen
        /\ \E i \in DOMAIN n : IsLetter(n[i])
        /\ \E i \in DOMAIN n : IsDigit(n[i])

Candidates(query) ==
    { tok \in Tokens(query) : IsCandidate(tok.text) }

IsPrefix(a, b) == Len(a) <= Len(b) /\ SubSeq(b, 1, Len(a)) = a

\* confidence of candidate cand for catalog key catkey: 100 on an exact normalised
\* match, 100 - 100*d/len(key) for a prefix d <= MaxDistance short, else 0
MatchConfidence(cand, catkey) ==
    LET d == Len(catkey) - Len(cand)
    IN  IF cand = catkey THEN 100
        ELSE IF IsPrefix(cand, catkey) /\ d <= MaxDistance
             THEN 100 - ((100 * d) \div Len(catkey))
             ELSE 0

\* every (candidate, product) pair that clears the acceptance threshold
Matches(cat, query) ==
    { [pos |-> c.pos, idx |-> i,
       conf |-> MatchConfidence(Normalize(c.text), Normalize(cat[i].model_number))] :
         c \in Candidates(query), i \in DOMAIN cat }

Accepted(cat, query) == { m \in Matches(cat, query) : m.conf >= MinConfidence }

\* best score first, then earliest position, then longer key, then catalog order
Better(cat, a, b) ==
    LET la == Len(Normalize(cat[a.idx].model_number))
        lb == Len(Normalize(cat[b.idx].model_number))
    IN  \/ a.conf > b.conf
        \/ a.conf = b.conf /\ a.pos < b.pos
        \/ a.conf = b.conf /\ a.pos = b.pos /\ la > lb
        \/ a.conf = b.conf /\ a.pos = b.pos /\ la = lb /\ a.idx <= b.idx

\* the ProductContext of a match
ProductContext(cat, best) ==
    [model_number |-> cat[best.idx].model_number,
     specs |-> cat[best.idx].specs,
     media |-> cat[best.idx].media,
     documents |-> cat[best.idx].documents,
     matched_confidence |-> best.conf]

\* the ProductContext of the best of the accepted matches acc, or None
BestOf(cat, acc) ==
    IF acc = {} THEN None
    ELSE ProductContext(cat, CHOOSE a \in acc : \A b \in acc : Better(cat, a, b))

\* ProductDatabase.find_product: a ProductContext, or None
FindProduct(cat, query) ==
    CHOOSE best \in { BestOf(cat, acc) : acc \in {Accepted(cat, query)} } : TRUE

\* ------------------------------------------------------------------------
\* Media shapes
\* ------------------------------------------------------------------------
\* the most entries of media.videos and of media.images
MaxMedia == 2

\* the entries the data layer delivers: {title, url} records and bare strings
MediaEntries ==
    { [kind |-> "dict", title |-> "Install", url |-> "v1"],
      [kind |-> "str", value |-> "img1.jpg"],
      [kind |-> "str", value |-> "clip.mp4"] }

MediaLists == UNION { [1..n -> MediaEntries] : n \in 0..MaxMedia }

\* the catalogs whose first product carries the videos and images of every
\* mixture of shapes
MediaCatalogs ==
    { [LoadedCatalog EXCEPT ![1].media = [videos |-> v, images |-> i]] :
        v \in MediaLists, i \in MediaLists }

\* ------------------------------------------------------------------------
\* Identifier strings
\* ------------------------------------------------------------------------
IdentCPHyphens == <<"1","0","-","F","G","C","-","4","0","0","3","-","C","P">>
IdentCPBare == <<"1","0","F","G","C","4","0","0","3","C","P">>
IdentBNBare == <<"1","0","F","G","C","4","0","0","3","B","N">>
IdentMBHyphens == <<"1","0","-","F","G","C","-","4","0","0","3","-","M","B">>

\* the identifier strings the lookups start from
SeedIdents == { ModelCP, IdentCPHyphens, IdentCPBare, IdentBNBare, IdentMBHyphens }

\* the non-alphanumeric characters a rewriting inserts
PunctChars == { "-", " " }

\* the most rewritings applied to one identifier string
MaxEdits == 2

\* s without its i-th character, and s with c put after its i-th character
RemoveAt(s, i) == SubSeq(s, 1, i - 1) \o SubSeq(s, i + 1, Len(s))
InsertAt(s, i, c) == SubSeq(s, 1, i) \o << c >> \o SubSeq(s, i + 1, Len(s))

\* the letter c in the other case
OtherCase(c) == IF c \in UpperSet THEN ToLower[c] ELSE ToUpper[c]

\* ------------------------------------------------------------------------
\* Requests
\* ------------------------------------------------------------------------
QueryPolicy == <<"V","a","l","v","e"," ","I","s","s","u","e">>
QueryPrice == <<"p","r","i","c","e"," ","o","f"," ","1","0",".","F","G","C",".","4","0","0","3","C","P","?">>
QueryBoth == <<"L","e","a","k",":"," ","c","o","m","p","a","r","e"," ","1","0","F","G","C","4","0","0","3","B","N">>

\* the bodies of POST /api/chat that the runs are drawn from
ChatRequests ==
    { [query |-> QueryPolicy, model_mode |-> "flash"],
      [query |-> QueryPrice, model_mode |-> "reasoning"],
      [query |-> QueryBoth, model_mode |-> "flash"] }

\* the words the queries of the single-run specification are made of
Words ==
    { <<"f","a","u","c","e","t">>,
      <<"L","E","A","K","I","N","G">>,
      <<"f","i","x","t","u","r","e">>,
      <<"C","o","m","p","a","r","e">>,
      <<"T","V","s">>,
      <<"n","o","t">>,
      <<"w","o","r","k","i","n","g">>,
      <<"1","0",".","F","G","C",".","4","0","0","3","C","P">>,
      <<"1","0",".","F","G","C",".","4","0","0","3","B","N">> }

\* the words of ws joined by single spaces
RECURSIVE Join(_)
Join(ws) ==
    IF ws = << >> THEN << >>
    ELSE IF Len(ws) = 1 THEN ws[1]
    ELSE ws[1] \o << " " >> \o Join(Tail(ws))

WordLists == UNION { [1..n -> Words] : n \in 1..MaxWords }

\* the bodies of POST /api/chat of the single-run specification
WordRequests ==
    { [query |-> Join(ws), model_mode |-> IF Len(ws) = 1 THEN "reasoning" ELSE "flash"] :
        ws \in WordLists }

\* ------------------------------------------------------------------------
\* PromptsManager (core/prompts.py) and strategy selection
\* ------------------------------------------------------------------------
\* the three system prompts, each a text of its own
SynthesisPrompt == [prompt |-> "synthesis"]
TroubleshootingPrompt == [prompt |-> "troubleshooting"]
ComparisonPrompt == [prompt |-> "comparison"]

TroubleshootingKeywords ==
    << <<"n","o","t"," ","w","o","r","k","i","n","g">>,
       <<"b","r","o","k","e","n">>,
       <<"l","e","a","k">>,
       <<"i","s","s","u","e">>,
       <<"p","r","o","b","l","e","m">>,
       <<"f","i","x">>,
       <<"r","e","p","a","i","r">> >>

ComparisonKeywords ==
    << <<"c","o","m","p","a","r","e">>,
       <<"d","i","f","f","e","r","e","n","c","e">>,
       <<"v","e","r","s","u","s">>,
       <<"v","s">>,
       <<"b","e","t","t","e","r">> >>

IsTroubleshooting(query) == ContainsAny(Lower(query), TroubleshootingKeywords)
IsComparison(query) == ContainsAny(Lower(query), ComparisonKeywords)

\* a selector that compares the keywords with the query as typed
SelectSystemPromptCaseSensitive(query) ==
    LET p0 == SynthesisPrompt
        p1 == IF ContainsAny(query, TroubleshootingKeywords) THEN TroubleshootingPrompt ELSE p0
    IN  IF ContainsAny(query, ComparisonKeywords) THEN ComparisonPrompt ELSE p1

\* a selector that tests the comparison keywords first, so that the
\* troubleshooting test is the later one and wins
SelectSystemPromptTroubleLast(query) ==
    LET p0 == SynthesisPrompt
        p1 == IF IsComparison(query) THEN ComparisonPrompt ELSE p0
    IN  IF IsTroubleshooting(query) THEN TroubleshootingPrompt ELSE p1

\* _synthesize_response, the choice of system_prompt: three assignments in
\* sequence, the last one that applies stands
SelectSystemPrompt(query) ==
    LET p0 == SynthesisPrompt
        p1 == IF IsTroubleshooting(query) THEN TroubleshootingPrompt ELSE p0
    IN  IF IsComparison(query) THEN ComparisonPrompt ELSE p1

\* ------------------------------------------------------------------------
\* GeminiService (services/gemini_service.py)
\* ------------------------------------------------------------------------
Models == [flash |-> "gemini-2.5-flash", reasoning |-> "gemini-2.5-pro"]

\* self.models.get(mode, self.models["flash"])
ModelName(mode) == IF mode \in DOMAIN Models THEN Models[mode] ELSE Models["flash"]

\* a configuration with one temperature for every mode
GenerationConfigOneTemperature(mode, instruction) ==
    [temperature |-> 40,
     top_p |-> 95,
     top_k |-> 40,
     max_output_tokens |-> 4096,
     system_instruction |-> instruction]

\* a configuration whose temperature is that of flash for the mode
\* "reasoning" alone
GenerationConfigReasoningOnly(mode, instruction) ==
    [temperature |-> IF mode = "reasoning" THEN 40 ELSE 20,
     top_p |-> 95,
     top_k |-> 40,
     max_output_tokens |-> 4096,
     system_instruction |-> instruction]

\* GenerateContentConfig of generate_response; temperature and top_p in hundredths
GenerationConfig(mode, instruction) ==
    [temperature |-> IF mode = "flash" THEN 20 ELSE 40,
     top_p |-> 95,
     top_k |-> 40,
     max_output_tokens |-> 4096,
     system_instruction |-> instruction]

\* the max_results the orchestrator passes to file_search
SearchMaxResults == 5

\* a search request that never carries the filter
SearchRequestUnfiltered(store, query, model_filter, max_results) ==
    [model |-> Models["flash"],
     contents |-> query,
     file_search_store_names |-> << store >>,
     top_k |-> max_results]

\* file_search: the generate_content request with the FileSearch tool;
\* model_filter is the empty string when no filter is given
SearchRequest(store, query, model_filter, max_results) ==
    [model |-> Models["flash"],
     contents |-> IF model_filter # << >> THEN model_filter \o << " " >> \o query ELSE query,
     file_search_store_names |-> << store >>,
     top_k |-> max_results]

\* one entry of results for a grounding chunk
ChunkResult(chunk) ==
    IF chunk.ctx
    THEN [title |-> chunk.title, text |-> chunk.text, uri |-> chunk.uri]
    ELSE [title |-> "Unknown", text |-> "", uri |-> ""]

\* a file_search that catches errors.APIError alone
FileSearchRaisesOther(resp) == resp.kind = "exception"

\* the except clauses of file_search: errors.APIError and Exception are
\* both caught, so no failure of the collaborator leaves file_search
FileSearchRaises(resp) == resp.kind \notin {"ok", "api_error", "exception"}

\* file_search, after the request: the list it returns, for the response
\* or the exception the collaborator answered with
FileSearchResults(resp, max_results) ==
    IF resp.kind # "ok" THEN << >>
    ELSE LET chunks == Take(resp.chunks, max_results)
         IN  [i \in DOMAIN chunks |-> ChunkResult(chunks[i])]

\* [f(x) for x in s if keep(x)] helpers
RECURSIVE Flatten(_)
Flatten(ss) == IF ss = << >> THEN << >> ELSE Head(ss) \o Flatten(Tail(ss))

Part(name, args) == [part |-> name, args |-> args]

\* a prompt builder that lists the structured media entries only
IsDictEntry(entry) == entry.kind = "dict"
MediaLinesDictOnly(entries, default) ==
    LET dicts == SelectSeq(entries, IsDictEntry)
    IN  [i \in DOMAIN dicts |-> Part("line", << dicts[i].title, dicts[i].url >>)]

\* the lines of the videos or images section: a dict entry by title and
\* url, a str entry by the default label and its value
MediaLines(entries, default) ==
    [i \in DOMAIN entries |->
        IF entries[i].kind = "dict"
        THEN Part("line", << entries[i].title, entries[i].url >>)
        ELSE Part("line", << default, entries[i].value >>)]

\* _build_prompt: the parts joined into the prompt, in order
BuildPrompt(query, context) ==
    LET st == context.structured
        has_product == TruthyDict(st) /\ Truthy(st.specs)
        note == IF ~has_product THEN << Part("general_note", << >>) >> ELSE << >>
        shown(kv) == kv.key \notin {"Model_NO", "Product_Name"}
        specs == IF TruthyDict(st) /\ Truthy(st.specs)
                 THEN LET kvs == SelectSeq(st.specs, shown)
                      IN  << Part("Product Specifications", << >>) >>
                          \o [i \in DOMAIN kvs |-> Part("line", << kvs[i].key, kvs[i].value >>)]
                 ELSE << >>
        videos == IF TruthyDict(st) /\ TruthyDict(st.media) /\ Truthy(st.media.videos)
                  THEN << Part("Available Videos", << >>) >> \o MediaLines(st.media.videos, "Video")
                  ELSE << >>
        images == IF TruthyDict(st) /\ TruthyDict(st.media) /\ Truthy(st.media.images)
                  THEN << Part("Available Images", << >>) >> \o MediaLines(st.media.images, "Image")
                  ELSE << >>
        docs == IF TruthyDict(st) /\ Truthy(st.documents)
                THEN << Part("Available Documents", << >>) >>
                     \o [i \in DOMAIN st.documents |->
                           Part("line", << st.documents[i].title, st.documents[i].type,
                                           st.documents[i].url >>)]
                ELSE << >>
        un == context.unstructured
        excerpts == IF Truthy(un)
                    THEN << Part("Relevant Documentation Excerpts", << >>) >>
                         \o Flatten([i \in DOMAIN un |->
                               << Part("Excerpt", << i, un[i].title >>),
                                  Part("text", << un[i].text >>) >>])
                    ELSE << >>
    IN  << Part("User Query", << query >>) >> \o note \o specs \o videos \o images
        \o docs \o excerpts

\* an append that keeps every item, seen before or not
AppendAll(sources, items) == sources \o items

\* an insert at the front of each item that is not in sources yet
RECURSIVE AppendNewFront(_, _)
AppendNewFront(sources, items) ==
    IF items = << >> THEN sources
    ELSE AppendNewFront(IF Head(items) \in Range(sources) THEN sources
                        ELSE << Head(items) >> \o sources,
                        Tail(items))

\* sources.append(x) for each x of items that is not in sources yet
RECURSIVE AppendNew(_, _)
AppendNew(sources, items) ==
    IF items = << >> THEN sources
    ELSE AppendNew(IF Head(items) \in Range(sources) THEN sources
                   ELSE Append(sources, Head(items)),
                   Tail(items))

NonEmptyTitle(t) == t # ""

\* _extract_sources: no result of file_search has a 'page', so the source of
\* an excerpt is its title
ExtractSources(context) ==
    LET un == context.unstructured
        fromSearch == AppendNew(<< >>, [i \in DOMAIN un |-> un[i].title])
        st == context.structured
        titles == IF "documents" \in DOMAIN st
                  THEN SelectSeq([i \in DOMAIN st.documents |-> st.documents[i].title],
                                 NonEmptyTitle)
                  ELSE << >>
    IN  AppendNew(fromSearch, titles)

\* ------------------------------------------------------------------------
\* Orchestrator (core/orchestrator.py), pure parts
\* ------------------------------------------------------------------------
\* a fuser that fills structured from the head of the catalog
StructuredFromFirst(product) ==
    [specs |-> LoadedCatalog[1].specs,
     media |-> LoadedCatalog[1].media,
     documents |-> LoadedCatalog[1].documents]

\* _retrieve_data: retrieval_context["structured"]
Structured(product) ==
    IF product # None
    THEN [specs |-> product.specs,
          media |-> product.media,
          documents |-> product.documents]
    ELSE EmptyDict

\* a fuser that keeps the excerpts with a title only
HasTitle(result) == result.title # "Unknown"
UnstructuredTitledOnly(file_search_results) == SelectSeq(file_search_results, HasTitle)

\* _retrieve_data: retrieval_context["unstructured"], the list file_search
\* returned
UnstructuredFrom(file_search_results) == file_search_results

\* _retrieve_data: the model_filter argument of the file_search call
ModelFilter(product) ==
    IF product # None THEN product.model_number ELSE << >>

\* _format_output: len(output['markdown_response']) of a response without text
FormatRaises(llm) == llm.response = None

\* a formatter that always builds the media_assets dict
FormatOutputAlwaysAssets(llm, product) ==
    [markdown_response |-> llm.response,
     media_assets |-> IF product # None
                      THEN [specs |-> product.specs,
                            videos |-> product.media.videos,
                            images |-> product.media.images,
                            documents |-> product.documents]
                      ELSE [specs |-> << >>, videos |-> << >>, images |-> << >>,
                            documents |-> << >>],
     sources |-> llm.sources,
     model_used |-> llm.model_used,
     matched_product |-> IF product # None THEN Str(product.model_number)
                         ELSE None,
     confidence |-> IF product # None THEN product.matched_confidence
                    ELSE 0]

\* a formatter that builds media_assets only for a product with videos
FormatOutputAssetsIfVideos(llm, product) ==
    [markdown_response |-> llm.response,
     media_assets |-> IF product # None /\ Truthy(product.media.videos)
                      THEN [specs |-> product.specs,
                            videos |-> product.media.videos,
                            images |-> product.media.images,
                            documents |-> product.documents]
                      ELSE None,
     sources |-> llm.sources,
     model_used |-> llm.model_used,
     matched_product |-> IF product # None THEN Str(product.model_number)
                         ELSE None,
     confidence |-> IF product # None THEN product.matched_confidence
                    ELSE 0]

\* a formatter that reports every match as unscored
FormatOutputUnscored(llm, product) ==
    [markdown_response |-> llm.response,
     media_assets |-> IF product # None
                      THEN [specs |-> product.specs,
                            videos |-> product.media.videos,
                            images |-> product.media.images,
                            documents |-> product.documents]
                      ELSE None,
     sources |-> llm.sources,
     model_used |-> llm.model_used,
     matched_product |-> IF product # None THEN Str(product.model_number)
                         ELSE None,
     confidence |-> 0]

\* _format_output (the timestamp, a clock reading, is left out)
FormatOutput(llm, product) ==
    [markdown_response |-> llm.response,
     media_assets |-> IF product # None
                      THEN [specs |-> product.specs,
                            videos |-> product.media.videos,
                            images |-> product.media.images,
                            documents |-> product.documents]
                      ELSE None,
     sources |-> llm.sources,
     model_used |-> llm.model_used,
     matched_product |-> IF product # None THEN Str(product.model_number)
                         ELSE None,
     confidence |-> IF product # None THEN product.matched_confidence
                    ELSE 0]

\* a pipeline that selects the strategy before it retrieves
StageAfterSwapped(stage) ==
    CASE stage = "EXTRACTION" -> "SYNTHESIS_PREP"
      [] stage = "SYNTHESIS_PREP" -> "RETRIEVAL"
      [] stage = "RETRIEVAL" -> "SYNTHESIS"
      [] stage = "SYNTHESIS" -> "FORMAT"
      [] stage = "FORMAT" -> "DONE"

\* process_query: the stage that follows a stage
StageAfter(stage) ==
    CASE stage = "EXTRACTION" -> "RETRIEVAL"
      [] stage = "RETRIEVAL" -> "SYNTHESIS_PREP"
      [] stage = "SYNTHESIS_PREP" -> "SYNTHESIS"
      [] stage = "SYNTHESIS" -> "FORMAT"
      [] stage = "FORMAT" -> "DONE"

\* ------------------------------------------------------------------------
\* What the collaborators may answer
\* ------------------------------------------------------------------------
ChunkManual == [ctx |-> TRUE, title |-> "Manual", text |-> "t1", uri |-> "u1"]
ChunkManualAgain == [ctx |-> TRUE, title |-> "Manual", text |-> "t2", uri |-> "u2"]
ChunkWarranty == [ctx |-> TRUE, title |-> "Warranty", text |-> "t3", uri |-> "u3"]
ChunkGuide == [ctx |-> TRUE, title |-> "Guide", text |-> "t4", uri |-> "u4"]
ChunkBare == [ctx |-> FALSE]

SearchResponses ==
    { [kind |-> "api_error"],
      [kind |-> "exception"],
      [kind |-> "ok", chunks |-> << >>],
      [kind |-> "ok", chunks |-> << ChunkManual, ChunkBare, ChunkManualAgain,
                                    ChunkWarranty, ChunkManual, ChunkGuide >>] }

GenerationResponses ==
    { [kind |-> "error"],
      [kind |-> "ok", text |-> Str("answer")],
      [kind |-> "ok", text |-> None] }

\* ------------------------------------------------------------------------
\* State
\* ------------------------------------------------------------------------
VARIABLES
    env,                \* the environment variables lifespan reads
    lifespan,           \* the position of lifespan: a startup step, serving or aborted
    services,           \* the module globals product_db, gemini_service, orchestrator: set or not
    catalog,            \* product_db: the products, loaded at startup
    store_name,         \* gemini.file_search_store_name ("" when not configured)
    running,            \* the run the event loop is executing, 0 when none
    pc,                 \* per run: the stage it is about to execute
    request,            \* per run: the ChatRequest
    product_context,    \* per run: local of process_query
    retrieval_context,  \* per run: local of process_query
    system_prompt,      \* per run: local of _synthesize_response
    llm_response,       \* per run: local of process_query
    final_output,       \* per run: local of process_query
    trace,              \* per run: the stages entered so far, in order
    search_requests,    \* per run: the requests sent to the search collaborator
    search_response,    \* per run: what the search collaborator answered
    gen_requests,       \* per run: the requests sent to the generation collaborator
    gen_response,       \* per run: what the generation collaborator answered
    http,               \* per run: the responses sent to the caller of /api/chat
    ident,              \* the identifier string handed to the normaliser
    key,                \* normalize(ident)
    found,              \* find_product(ident)
    edits,              \* the number of rewritings of ident so far
    freshdesk,          \* the module global freshdesk_service: set or not
    desk_pc,            \* the position of the call of an endpoint other than /api/chat
    desk_request,       \* the request of that call
    ticket_requests,    \* the requests sent to the ticketing system
    ticket_outcome,     \* what the ticketing system answered
    note_result,        \* what add_private_note returned
    reply               \* the response sent to the caller of that endpoint

locals == << product_context, retrieval_context, system_prompt, llm_response, final_output >>
history == << trace, search_requests, search_response, gen_requests, gen_response, http >>
boot == << env, lifespan, services >>
lookup == << ident, key, found, edits >>
desk_call == << desk_pc, desk_request, ticket_requests, ticket_outcome, note_result, reply >>
desk == << freshdesk, desk_call >>
vars == << desk, lookup, boot, catalog, store_name, running, pc, request, locals, history >>

StoreNames == {"", "fileSearchStores/kb"}

\* the environments lifespan may find: GOOGLE_API_KEY set or not, the data
\* directory loadable or not, FILE_SEARCH_CORPUS_ID set or not
Envs ==
    [google_api_key : {"", "key"}, data_ok : BOOLEAN, file_search_corpus_id : StoreNames]

NoServices == [product_db |-> FALSE, gemini_service |-> FALSE, orchestrator |-> FALSE]
AllServices == [product_db |-> TRUE, gemini_service |-> TRUE, orchestrator |-> TRUE]

\* no endpoint other than /api/chat has been called
DeskIdle ==
    /\ desk_pc = "idle"
    /\ desk_request = None
    /\ ticket_requests = << >>
    /\ ticket_outcome = None
    /\ note_result = None
    /\ reply = None

\* the Freshdesk service is not configured
NoDesk == freshdesk = FALSE /\ DeskIdle

\* no identifier has been handed to the normaliser
NoLookup ==
    /\ ident = << >>
    /\ key = << >>
    /\ found = None
    /\ edits = 0

\* the state when lifespan has reached its yield with the products cat
\* loaded: startup is complete
ServingWith(cat) ==
    /\ env \in { e \in Envs : e.google_api_key # "" /\ e.data_ok }
    /\ lifespan = "serving"
    /\ services = AllServices
    /\ catalog = cat
    /\ store_name = env.file_search_corpus_id
    /\ running = 0
    /\ pc = [r \in Runs |-> "idle"]
    /\ request = [r \in Runs |-> None]
    /\ product_context = [r \in Runs |-> None]
    /\ retrieval_context = [r \in Runs |-> None]
    /\ system_prompt = [r \in Runs |-> None]
    /\ llm_response = [r \in Runs |-> None]
    /\ final_output = [r \in Runs |-> None]
    /\ trace = [r \in Runs |-> << >>]
    /\ search_requests = [r \in Runs |-> << >>]
    /\ search_response = [r \in Runs |-> None]
    /\ gen_requests = [r \in Runs |-> << >>]
    /\ gen_response = [r \in Runs |-> None]
    /\ http = [r \in Runs |-> << >>]

Serving == ServingWith(LoadedCatalog)

Init == NoDesk /\ NoLookup /\ Serving

\* ------------------------------------------------------------------------
\* POST /api/chat (routers/api.py process_chat) and Orchestrator.process_query
\* A run executes without interruption from one await that suspends to the
\* next: of the two collaborator calls only file_search awaits the async
\* client; generate_response calls the blocking client.
\* ------------------------------------------------------------------------
Enter(r, stage) == trace' = [trace EXCEPT ![r] = Append(@, stage)]

\* a generation call made through the asynchronous client: the run gives
\* the event loop up while it waits
GenerationCallYields(r) == 0

\* who has the event loop during the generation call of run r:
\* client.models.generate_content is the blocking client, so run r itself
GenerationCallHolds(r) == r

\* an error handler that lets the first failed generation call be made again
FailsRetryOnce(r) ==
    IF pc[r] = "SYNTHESIS_WAIT" /\ Len(gen_requests[r]) = 1
    THEN /\ pc' = [pc EXCEPT ![r] = "SYNTHESIS"]
         /\ running' = r
         /\ UNCHANGED http
    ELSE /\ pc' = [pc EXCEPT ![r] = "FAILED"]
         /\ http' = [http EXCEPT ![r] = Append(@, [status |-> 500, body |-> None])]
         /\ running' = 0

\* an error handler that swallows the exception and never answers the caller
FailsSwallowed(r) ==
    /\ running' = 0
    /\ UNCHANGED << pc, http >>

\* an exception leaves process_query (except: raise) and process_chat turns it
\* into HTTPException(500)
Fails(r) ==
    /\ pc' = [pc EXCEPT ![r] = "FAILED"]
    /\ http' = [http EXCEPT ![r] = Append(@, [status |-> 500, body |-> None])]
    /\ running' = 0

\* process_chat is entered with a validated request; get_orchestrator returns
\* the orchestrator and process_query starts
ReceiveChat(r, req) ==
    /\ lifespan = "serving"
    /\ services.orchestrator
    /\ running = 0
    /\ pc[r] = "idle"
    /\ request' = [request EXCEPT ![r] = req]
    /\ pc' = [pc EXCEPT ![r] = "EXTRACTION"]
    /\ running' = r
    /\ UNCHANGED << desk, lookup, boot, catalog, store_name, locals, history >>

\* an orchestrator that keeps the matched product in one attribute of the
\* shared instance
ExtractionShared(r) ==
    /\ running = r
    /\ pc[r] = "EXTRACTION"
    /\ Enter(r, "EXTRACTION")
    /\ product_context' = [s \in Runs |-> FindProduct(catalog, request[r].query)]
    /\ pc' = [pc EXCEPT ![r] = StageAfter("EXTRACTION")]
    /\ UNCHANGED << desk, lookup, boot, catalog, store_name, running, request, retrieval_context, system_prompt,
                    llm_response, final_output, search_requests, search_response,
                    gen_requests, gen_response, http >>

\* STAGE 1: _extract_product
Extraction(r) ==
    /\ running = r
    /\ pc[r] = "EXTRACTION"
    /\ Enter(r, "EXTRACTION")
    /\ product_context' = [product_context EXCEPT ![r] = FindProduct(catalog, request[r].query)]
    /\ pc' = [pc EXCEPT ![r] = StageAfter("EXTRACTION")]
    /\ UNCHANGED << desk, lookup, boot, catalog, store_name, running, request, retrieval_context, system_prompt,
                    llm_response, final_output, search_requests, search_response,
                    gen_requests, gen_response, http >>

\* a fuser without the else: the broad search follows the targeted one
RetrievalTwice(r) ==
    /\ running = r
    /\ pc[r] = "RETRIEVAL"
    /\ Enter(r, "RETRIEVAL")
    /\ retrieval_context' = [retrieval_context EXCEPT ![r] =
            [structured |-> Structured(product_context[r]), unstructured |-> << >>]]
    /\ IF store_name = ""
       THEN /\ pc' = [pc EXCEPT ![r] = StageAfter("RETRIEVAL")]
            /\ UNCHANGED << running, search_requests >>
       ELSE /\ search_requests' = [search_requests EXCEPT ![r] =
                    IF product_context[r] # None
                    THEN << SearchRequest(store_name, request[r].query,
                                          ModelFilter(product_context[r]), SearchMaxResults),
                            SearchRequest(store_name, request[r].query, << >>,
                                          SearchMaxResults) >>
                    ELSE << SearchRequest(store_name, request[r].query, << >>,
                                          SearchMaxResults) >>]
            /\ pc' = [pc EXCEPT ![r] = "RETRIEVAL_WAIT"]
            /\ running' = 0
    /\ UNCHANGED << desk, lookup, boot, catalog, store_name, request, product_context, system_prompt,
                    llm_response, final_output, search_response, gen_requests,
                    gen_response, http >>

\* STAGE 2: _retrieve_data up to the await in file_search.  Without a
\* File Search store file_search returns [] at once and sends nothing.
Retrieval(r) ==
    /\ running = r
    /\ pc[r] = "RETRIEVAL"
    /\ Enter(r, "RETRIEVAL")
    /\ retrieval_context' = [retrieval_context EXCEPT ![r] =
            [structured |-> Structured(product_context[r]), unstructured |-> << >>]]
    /\ IF store_name = ""
       THEN /\ pc' = [pc EXCEPT ![r] = StageAfter("RETRIEVAL")]
            /\ UNCHANGED << running, search_requests >>
       ELSE /\ search_requests' = [search_requests EXCEPT ![r] =
                    Append(@, SearchRequest(store_name, request[r].query,
                                            ModelFilter(product_context[r]),
                                            SearchMaxResults))]
            /\ pc' = [pc EXCEPT ![r] = "RETRIEVAL_WAIT"]
            /\ running' = 0
    /\ UNCHANGED << desk, lookup, boot, catalog, store_name, request, product_context, system_prompt,
                    llm_response, final_output, search_response, gen_requests,
                    gen_response, http >>

\* the search collaborator answers or fails, and the run resumes
SearchReturns(r, resp) ==
    /\ running = 0
    /\ pc[r] = "RETRIEVAL_WAIT"
    /\ search_response' = [search_response EXCEPT ![r] = resp]
    /\ IF FileSearchRaises(resp)
       THEN /\ Fails(r)
            /\ UNCHANGED retrieval_context
       ELSE /\ retrieval_context' = [retrieval_context EXCEPT ![r].unstructured =
                    UnstructuredFrom(FileSearchResults(resp, SearchMaxResults))]
            /\ pc' = [pc EXCEPT ![r] = StageAfter("RETRIEVAL")]
            /\ running' = r
            /\ UNCHANGED http
    /\ UNCHANGED << desk, lookup, boot, catalog, store_name, request, product_context, system_prompt,
                    llm_response, final_output, trace, search_requests, gen_requests,
                    gen_response >>

\* STAGE 3, first half: _synthesize_response selects the system prompt
StrategySelection(r) ==
    /\ running = r
    /\ pc[r] = "SYNTHESIS_PREP"
    /\ Enter(r, "SYNTHESIS_PREP")
    /\ system_prompt' = [system_prompt EXCEPT ![r] = SelectSystemPrompt(request[r].query)]
    /\ pc' = [pc EXCEPT ![r] = StageAfter("SYNTHESIS_PREP")]
    /\ UNCHANGED << desk, lookup, boot, catalog, store_name, running, request, product_context,
                    retrieval_context, llm_response, final_output, search_requests,
                    search_response, gen_requests, gen_response, http >>

\* STAGE 3, second half: generate_response up to the generation call.  The
\* call is made with the synchronous client inside the coroutine: the run
\* keeps the event loop while the collaborator works.
Synthesis(r) ==
    /\ running = r
    /\ pc[r] = "SYNTHESIS"
    /\ Enter(r, "SYNTHESIS")
    /\ gen_requests' = [gen_requests EXCEPT ![r] =
            Append(@, [model |-> ModelName(request[r].model_mode),
                       contents |-> BuildPrompt(request[r].query, retrieval_context[r]),
                       config |-> GenerationConfig(request[r].model_mode, system_prompt[r])])]
    /\ pc' = [pc EXCEPT ![r] = "SYNTHESIS_WAIT"]
    /\ running' = GenerationCallHolds(r)
    /\ UNCHANGED << desk, lookup, boot, catalog, store_name, request, product_context, retrieval_context,
                    system_prompt, llm_response, final_output, search_requests,
                    search_response, gen_response, http >>

\* the generation collaborator answers or fails: generate_response returns
\* the response with the sources, or raises
GenerationReturns(r, resp) ==
    /\ running = GenerationCallHolds(r)
    /\ pc[r] = "SYNTHESIS_WAIT"
    /\ gen_response' = [gen_response EXCEPT ![r] = resp]
    /\ IF resp.kind = "error"
       THEN /\ Fails(r)
            /\ UNCHANGED llm_response
       ELSE /\ llm_response' = [llm_response EXCEPT ![r] =
                    [response |-> resp.text,
                     sources |-> ExtractSources(retrieval_context[r]),
                     model_used |-> ModelName(request[r].model_mode)]]
            /\ pc' = [pc EXCEPT ![r] = StageAfter("SYNTHESIS")]
            /\ running' = r
            /\ UNCHANGED http
    /\ UNCHANGED << desk, lookup, boot, catalog, store_name, request, product_context, retrieval_context,
                    system_prompt, final_output, trace, search_requests, search_response,
                    gen_requests >>

\* STAGE 4: _format_output, then process_chat answers with the ChatResponse
Formatting(r) ==
    /\ running = r
    /\ pc[r] = "FORMAT"
    /\ Enter(r, "FORMAT")
    /\ IF FormatRaises(llm_response[r])
       THEN /\ Fails(r)
            /\ UNCHANGED final_output
       ELSE LET out == FormatOutput(llm_response[r], product_context[r])
            IN  /\ final_output' = [final_output EXCEPT ![r] = out]
                /\ pc' = [pc EXCEPT ![r] = StageAfter("FORMAT")]
                /\ http' = [http EXCEPT ![r] = Append(@, [status |-> 200, body |-> out])]
                /\ running' = 0
    /\ UNCHANGED << desk, lookup, boot, catalog, store_name, request, product_context, retrieval_context,
                    system_prompt, llm_response, search_requests, search_response,
                    gen_requests, gen_response >>

\* ------------------------------------------------------------------------
\* Validation of the body of POST /api/chat (routers/api.py ChatRequest)
\* ------------------------------------------------------------------------
\* Field(min_length=1, max_length=2000)
MinQueryLength == 1
MaxQueryLength == 2000

\* Field(pattern="^(flash|reasoning)$")
ModePattern == {"flash", "reasoning"}

QueryOfLength(n) == [i \in 1..n |-> "x"]

\* the bodies a caller may post: a field may be absent, the query of any
\* length, the mode any string
ChatBodies ==
    { [query |-> QueryPrice, model_mode |-> "reasoning"],
      [query |-> QueryPolicy],
      [query |-> QueryOfLength(MinQueryLength), model_mode |-> "flash"],
      [query |-> QueryOfLength(MaxQueryLength), model_mode |-> "flash"],
      [query |-> QueryOfLength(MinQueryLength - 1), model_mode |-> "flash"],
      [query |-> QueryOfLength(MaxQueryLength + 1), model_mode |-> "reasoning"],
      [query |-> QueryPrice, model_mode |-> "pro"],
      [query |-> QueryPolicy, model_mode |-> "FLASH"],
      [query |-> QueryBoth, model_mode |-> ""],
      [query |-> << >>, model_mode |-> "gemini-2.5-pro"],
      [model_mode |-> "flash"] }

\* a validation that leaves the mode unchecked
ValidChatRequestAnyMode(body) ==
    /\ "query" \in DOMAIN body
    /\ Len(body.query) >= MinQueryLength
    /\ Len(body.query) <= MaxQueryLength

\* ChatRequest: query is required, model_mode defaults to "flash"
ValidChatRequest(body) ==
    /\ "query" \in DOMAIN body
    /\ Len(body.query) >= MinQueryLength
    /\ Len(body.query) <= MaxQueryLength
    /\ "model_mode" \in DOMAIN body => body.model_mode \in ModePattern

ParseChatRequest(body) ==
    [query |-> body.query,
     model_mode |-> IF "model_mode" \in DOMAIN body THEN body.model_mode ELSE "flash"]

\* the body does not validate: the framework answers 422 and process_chat is
\* not called
RejectChat(r, body) ==
    /\ lifespan = "serving"
    /\ running = 0
    /\ pc[r] = "idle"
    /\ request' = [request EXCEPT ![r] = body]
    /\ pc' = [pc EXCEPT ![r] = "REJECTED"]
    /\ http' = [http EXCEPT ![r] = Append(@, [status |-> 422, body |-> None])]
    /\ UNCHANGED << desk, lookup, boot, catalog, store_name, running, locals, trace, search_requests,
                    search_response, gen_requests, gen_response >>

\* POST /api/chat: the body is validated against ChatRequest, then
\* process_chat is called with the request
PostChat(r, body) ==
    IF ValidChatRequest(body)
    THEN ReceiveChat(r, ParseChatRequest(body))
    ELSE RejectChat(r, body)

\* ------------------------------------------------------------------------
\* Startup (main.py lifespan)
\* ------------------------------------------------------------------------
\* the state before lifespan runs: nothing loaded, no global set
InitBoot ==
    /\ NoDesk
    /\ NoLookup
    /\ env \in Envs
    /\ lifespan = "config"
    /\ services = NoServices
    /\ catalog = << >>
    /\ store_name = ""
    /\ running = 0
    /\ pc = [r \in Runs |-> "idle"]
    /\ request = [r \in Runs |-> None]
    /\ product_context = [r \in Runs |-> None]
    /\ retrieval_context = [r \in Runs |-> None]
    /\ system_prompt = [r \in Runs |-> None]
    /\ llm_response = [r \in Runs |-> None]
    /\ final_output = [r \in Runs |-> None]
    /\ trace = [r \in Runs |-> << >>]
    /\ search_requests = [r \in Runs |-> << >>]
    /\ search_response = [r \in Runs |-> None]
    /\ gen_requests = [r \in Runs |-> << >>]
    /\ gen_response = [r \in Runs |-> None]
    /\ http = [r \in Runs |-> << >>]

\* lifespan raises: startup failed, the application does not serve
Aborts == lifespan' = "aborted"

\* the required configuration: GOOGLE_API_KEY
StartupConfig ==
    /\ lifespan = "config"
    /\ IF env.google_api_key = "" THEN Aborts ELSE lifespan' = "product_db"
    /\ UNCHANGED << desk, lookup, env, services, catalog, store_name, running, pc, request, locals, history >>

\* a startup that goes on with an empty catalog when the data cannot be loaded
StartupProductDbLenient ==
    /\ lifespan = "product_db"
    /\ catalog' = IF env.data_ok THEN LoadedCatalog ELSE << >>
    /\ services' = [services EXCEPT !.product_db = TRUE]
    /\ lifespan' = "gemini"
    /\ UNCHANGED << desk, lookup, env, store_name, running, pc, request, locals, history >>

\* ProductDatabase(data_dir).load_data(): fatal when the data is missing or
\* malformed
StartupProductDb ==
    /\ lifespan = "product_db"
    /\ IF env.data_ok
       THEN /\ catalog' = LoadedCatalog
            /\ services' = [services EXCEPT !.product_db = TRUE]
            /\ lifespan' = "gemini"
       ELSE /\ Aborts
            /\ UNCHANGED << catalog, services >>
    /\ UNCHANGED << desk, lookup, env, store_name, running, pc, request, locals, history >>

\* GeminiService(api_key, corpus_id)
StartupGemini ==
    /\ lifespan = "gemini"
    /\ store_name' = env.file_search_corpus_id
    /\ services' = [services EXCEPT !.gemini_service = TRUE]
    /\ lifespan' = "freshdesk"
    /\ UNCHANGED << desk, lookup, env, catalog, running, pc, request, locals, history >>

\* the Freshdesk service is optional: the global is set when FRESHDESK_DOMAIN
\* and FRESHDESK_API_KEY are both set and is None otherwise; validated or
\* not, startup goes on
StartupFreshdesk ==
    /\ lifespan = "freshdesk"
    /\ lifespan' = "orchestrator"
    /\ \E configured \in BOOLEAN : freshdesk' = configured
    /\ UNCHANGED << desk_call, lookup, env, services, catalog, store_name, running, pc, request, locals, history >>

\* Orchestrator(product_db, gemini, prompts), then the yield
StartupOrchestrator ==
    /\ lifespan = "orchestrator"
    /\ services' = [services EXCEPT !.orchestrator = TRUE]
    /\ lifespan' = "serving"
    /\ UNCHANGED << desk, lookup, env, catalog, store_name, running, pc, request, locals, history >>

\* a process_chat that starts the pipeline without the orchestrator check
ReceiveChatUnchecked(r, req) ==
    /\ lifespan # "aborted"
    /\ ~services.orchestrator
    /\ running = 0
    /\ pc[r] = "idle"
    /\ request' = [request EXCEPT ![r] = req]
    /\ pc' = [pc EXCEPT ![r] = "EXTRACTION"]
    /\ running' = r
    /\ UNCHANGED << desk, lookup, boot, catalog, store_name, locals, history >>

\* process_chat while the global orchestrator is None: get_orchestrator
\* raises and the caller gets the 500, no stage is entered
ReceiveChatUnready(r, req) ==
    /\ lifespan # "aborted"
    /\ ~services.orchestrator
    /\ running = 0
    /\ pc[r] = "idle"
    /\ request' = [request EXCEPT ![r] = req]
    /\ Fails(r)
    /\ UNCHANGED << desk, lookup, boot, catalog, store_name, locals, trace, search_requests,
                    search_response, gen_requests, gen_response >>

Next ==
    \E r \in Runs :
        \/ \E req \in ChatRequests : ReceiveChat(r, req)
        \/ Extraction(r)
        \/ Retrieval(r)
        \/ \E resp \in SearchResponses : SearchReturns(r, resp)
        \/ StrategySelection(r)
        \/ Synthesis(r)
        \/ \E resp \in GenerationResponses : GenerationReturns(r, resp)
        \/ Formatting(r)

Spec == Init /\ [][Next]_vars

\* one run, over the bodies a caller may post
NextApi ==
    \/ \E body \in ChatBodies : PostChat(1, body)
    \/ Extraction(1)
    \/ Retrieval(1)
    \/ \E resp \in SearchResponses : SearchReturns(1, resp)
    \/ StrategySelection(1)
    \/ Synthesis(1)
    \/ \E resp \in GenerationResponses : GenerationReturns(1, resp)
    \/ Formatting(1)

SpecApi == Init /\ [][NextApi]_vars

\* the application from the start of lifespan on
NextBoot ==
    \/ StartupConfig
    \/ StartupProductDb
    \/ StartupGemini
    \/ StartupFreshdesk
    \/ StartupOrchestrator
    \/ \E r \in Runs : \E req \in ChatRequests : ReceiveChatUnready(r, req)
    \/ Next

SpecBoot == InitBoot /\ [][NextBoot]_vars

\* one run at a time, over the queries made of Words
NextOne ==
    \/ \E req \in WordRequests : ReceiveChat(1, req)
    \/ Extraction(1)
    \/ Retrieval(1)
    \/ \E resp \in SearchResponses : SearchReturns(1, resp)
    \/ StrategySelection(1)
    \/ Synthesis(1)
    \/ \E resp \in GenerationResponses : GenerationReturns(1, resp)
    \/ Formatting(1)

SpecOne == Init /\ [][NextOne]_vars

\* Orchestrator.process_query called without the validation of ChatRequest:
\* model_mode is any string.  The result reaches the caller as it reaches
\* the caller of process_chat.
ProcessQuery(r, query, model_mode) ==
    ReceiveChat(r, [query |-> query, model_mode |-> model_mode])

\* the mode strings process_query is called with
DirectModes == { "flash", "reasoning", "pro", "FLASH" }

\* two direct calls of process_query, with one query and any mode
NextDirect ==
    \E r \in {1, 2} :
        \/ \E model_mode \in DirectModes : ProcessQuery(r, QueryPolicy, model_mode)
        \/ Extraction(r)
        \/ Retrieval(r)
        \/ \E resp \in SearchResponses : SearchReturns(r, resp)
        \/ StrategySelection(r)
        \/ Synthesis(r)
        \/ \E resp \in GenerationResponses : GenerationReturns(r, resp)
        \/ Formatting(r)

SpecDirect == Init /\ [][NextDirect]_vars

\* one run for the first product, over the catalogs of every media mixture
InitMedia == NoDesk /\ NoLookup /\ \E cat \in MediaCatalogs : ServingWith(cat)

MediaRequests == { [query |-> QueryPrice, model_mode |-> "flash"] }

NextMedia ==
    \/ \E req \in MediaRequests : ReceiveChat(1, req)
    \/ Extraction(1)
    \/ Retrieval(1)
    \/ \E resp \in SearchResponses : SearchReturns(1, resp)
    \/ StrategySelection(1)
    \/ Synthesis(1)
    \/ \E resp \in GenerationResponses : GenerationReturns(1, resp)
    \/ Formatting(1)

SpecMedia == InitMedia /\ [][NextMedia]_vars

\* the steps of run r once its request is received: the event loop runs
\* every ready task, and each collaborator call returns or fails
Progress(r) ==
    \/ Extraction(r)
    \/ Retrieval(r)
    \/ \E resp \in SearchResponses : SearchReturns(r, resp)
    \/ StrategySelection(r)
    \/ Synthesis(r)
    \/ \E resp \in GenerationResponses : GenerationReturns(r, resp)
    \/ Formatting(r)

\* run r can take a step: the event loop is executing it, or it waits on
\* its search call while the loop is free to resume it
Ready(r) ==
    \/ running = r /\ pc[r] \in {"EXTRACTION", "RETRIEVAL", "SYNTHESIS_PREP", "SYNTHESIS", "FORMAT"}
    \/ running = 0 /\ pc[r] = "RETRIEVAL_WAIT"
    \/ running = GenerationCallHolds(r) /\ pc[r] = "SYNTHESIS_WAIT"

\* Ready(r) is the enabling condition of the steps of run r
ReadyIsEnabled == \A r \in Runs : Ready(r) <=> ENABLED <<Progress(r)>>_vars

\* weak fairness of the steps of each run, with their enabling condition
\* written out: a run that stays ready takes a step
Fairness == \A r \in Runs : ([]<>(~Ready(r))) \/ ([]<><<Progress(r)>>_vars)

\* the requests of the fair specification: whether a run ends does not
\* depend on its query, so one query without and one with a product do
FairRequests ==
    { [query |-> QueryPolicy, model_mode |-> "flash"],
      [query |-> QueryPrice, model_mode |-> "reasoning"] }

NextFair ==
    \E r \in Runs :
        \/ \E req \in FairRequests : ReceiveChat(r, req)
        \/ Progress(r)

SpecFair == Init /\ [][NextFair]_vars /\ Fairness

\* ------------------------------------------------------------------------
\* The endpoints other than /api/chat (routers/api.py) and FreshdeskService
\* (services/freshdesk.py)
\* ------------------------------------------------------------------------
ModelMB == <<"1","0",".","F","G","C",".","4","0","0","3","M","B">>

\* a catalog whose products carry a category
DeskCatalog ==
    << [model_number |-> ModelCP,
        specs |-> << [key |-> "Product_Category", value |-> "Kitchen"] >>,
        media |-> [videos |-> << >>, images |-> << >>],
        documents |-> << >>],
       [model_number |-> ModelBN,
        specs |-> << [key |-> "Product_Category", value |-> "Kitchen"] >>,
        media |-> [videos |-> << >>, images |-> << >>],
        documents |-> << >>],
       [model_number |-> ModelMB,
        specs |-> << [key |-> "Product_Category", value |-> "Showering"] >>,
        media |-> [videos |-> << >>, images |-> << >>],
        documents |-> << >>] >>

\* the bodies of POST /api/freshdesk
FreshdeskRequests == [ticket_id : {"101", "abc"}, formatted_note : {"<p>note</p>"}]

\* what the ticketing system answers to the request of add_private_note: a
\* response with a status and a body, or an exception of the HTTP client
TicketStatuses == {200, 201, 204, 400, 401, 404, 500}
TicketBodies == {"object_with_id", "object_without_id", "array", "not_json"}
TicketOutcomes ==
    { [kind |-> "exception"] }
    \cup { [kind |-> "response", status |-> s, body |-> b] :
             s \in TicketStatuses, b \in TicketBodies }

\* add_private_note: the request posted to the ticketing system
NoteRequest(ticket_id, note_html) ==
    [url |-> << "tickets", ticket_id, "notes" >>,
     body |-> note_html,
     private |-> TRUE,
     notify_emails |-> << >>]

\* add_private_note: the record returned for an outcome of the request.
\* On a status 200 or 201 the body is read with response.json() and its id
\* with data.get("id"): a body that is not JSON, or not a JSON object,
\* raises there, and the except clause returns the failure record.
AddPrivateNote(outcome) ==
    IF outcome.kind = "exception"
    THEN [success |-> FALSE, note_id |-> None, error |-> Str("exception")]
    ELSE IF outcome.status \in {200, 201}
         THEN IF outcome.body = "object_with_id"
              THEN [success |-> TRUE, note_id |-> Str("42"), error |-> None]
              ELSE IF outcome.body = "object_without_id"
                   THEN [success |-> TRUE, note_id |-> Str("None"), error |-> None]
                   ELSE [success |-> FALSE, note_id |-> None, error |-> Str("exception")]
         ELSE [success |-> FALSE, note_id |-> None, error |-> Str("HTTP")]

\* a handler whose generic except clause also takes the HTTPException
HttpErrorRewritten(status) == 500

\* except HTTPException: raise -- the status the handler raised is kept
HttpErrorKept(status) == status

\* POST /api/freshdesk, up to the request to the ticketing system
ExportToFreshdesk(req) ==
    /\ lifespan = "serving"
    /\ desk_pc = "idle"
    /\ desk_request' = [endpoint |-> "freshdesk", body |-> req]
    /\ IF ~freshdesk
       THEN /\ reply' = [status |-> HttpErrorKept(503), body |-> None]
            /\ desk_pc' = "done"
            /\ UNCHANGED << ticket_requests, ticket_outcome, note_result >>
       ELSE /\ ticket_requests' =
                    Append(ticket_requests, NoteRequest(req.ticket_id, req.formatted_note))
            /\ desk_pc' = "export_wait"
            /\ UNCHANGED << ticket_outcome, note_result, reply >>
    /\ UNCHANGED << freshdesk, lookup, boot, catalog, store_name, running, pc, request, locals,
                    history >>

\* the ticketing system answers or the HTTP client fails: add_private_note
\* returns and export_to_freshdesk answers with the FreshdeskResponse
TicketingAnswers(outcome) ==
    /\ desk_pc = "export_wait"
    /\ ticket_outcome' = outcome
    /\ note_result' = AddPrivateNote(outcome)
    /\ reply' = [status |-> 200,
                 body |-> [success |-> AddPrivateNote(outcome).success,
                           note_id |-> AddPrivateNote(outcome).note_id,
                           ticket_id |-> desk_request.body.ticket_id,
                           error |-> AddPrivateNote(outcome).error]]
    /\ desk_pc' = "done"
    /\ UNCHANGED << freshdesk, desk_request, ticket_requests, lookup, boot, catalog, store_name,
                    running, pc, request, locals, history >>

\* ProductDatabase.get_product_by_model: the product of that identifier, or
\* None
GetProductByModel(cat, model_number) ==
    IF \E i \in DOMAIN cat : Normalize(cat[i].model_number) = Normalize(model_number)
    THEN cat[CHOOSE i \in DOMAIN cat :
                 Normalize(cat[i].model_number) = Normalize(model_number)]
    ELSE None

\* the identifiers GET /api/product/{model_number} is called with
DetailIdents == { ModelCP, IdentCPBare, IdentMBHyphens, <<"Z","Z","9">> }

\* GET /api/product/{model_number}
GetProductDetails(model_number) ==
    /\ lifespan = "serving"
    /\ desk_pc = "idle"
    /\ desk_request' = [endpoint |-> "product", model_number |-> model_number]
    /\ reply' = IF GetProductByModel(catalog, model_number) = None
                THEN [status |-> HttpErrorKept(404), body |-> None]
                ELSE [status |-> 200, body |-> GetProductByModel(catalog, model_number)]
    /\ desk_pc' = "done"
    /\ UNCHANGED << freshdesk, ticket_requests, ticket_outcome, note_result, lookup, boot, catalog, store_name,
                    running, pc, request, locals, history >>

\* the largest limit GET /api/products is called with
MaxLimit == 3

\* the category of a product: its Product_Category spec field
Category(product) ==
    IF \E k \in DOMAIN product.specs : product.specs[k].key = "Product_Category"
    THEN product.specs[CHOOSE k \in DOMAIN product.specs :
                           product.specs[k].key = "Product_Category"].value
    ELSE ""

\* ProductDatabase.search_by_category: the products of the category, in
\* catalog order
SearchByCategory(cat, category) ==
    LET InCategory(product) == Category(product) = category
    IN  SelectSeq(cat, InCategory)

\* ProductDatabase.get_all_models: the model numbers, in catalog order
GetAllModels(cat) == [i \in DOMAIN cat |-> cat[i].model_number]

\* the category parameters of GET /api/products: absent, empty, or a name
Categories == { None, Str(""), Str("Kitchen"), Str("Showering"), Str("Bathing") }

\* list_products: the products before the final slice, for a category that
\* is given and not empty, and for none
ListedProducts(cat, category, limit) ==
    IF category # None /\ category.str # ""
    THEN SearchByCategory(cat, category.str)
    ELSE [i \in DOMAIN Take(GetAllModels(cat), limit) |->
              [model_number |-> GetAllModels(cat)[i]]]

\* GET /api/products
ListProducts(category, limit) ==
    /\ lifespan = "serving"
    /\ desk_pc = "idle"
    /\ desk_request' = [endpoint |-> "products", category |-> category, limit |-> limit]
    /\ reply' = [status |-> 200,
                 body |-> [products |-> Take(ListedProducts(catalog, category, limit), limit),
                           total |-> Len(ListedProducts(catalog, category, limit)),
                           limit |-> limit]]
    /\ desk_pc' = "done"
    /\ UNCHANGED << freshdesk, ticket_requests, ticket_outcome, note_result, lookup, boot, catalog, store_name,
                    running, pc, request, locals, history >>

\* the application serves, with the Freshdesk service configured or not
InitDesk ==
    /\ freshdesk \in BOOLEAN
    /\ DeskIdle
    /\ NoLookup
    /\ ServingWith(DeskCatalog)

NextDesk ==
    \/ \E req \in FreshdeskRequests : ExportToFreshdesk(req)
    \/ \E outcome \in TicketOutcomes : TicketingAnswers(outcome)
    \/ \E model_number \in DetailIdents : GetProductDetails(model_number)
    \/ \E category \in Categories, limit \in 0..MaxLimit : ListProducts(category, limit)

SpecDesk == InitDesk /\ [][NextDesk]_vars

\* ------------------------------------------------------------------------
\* Identifier lookups: normalize and find_product applied to identifier
\* strings and to their rewritings that change punctuation and case only
\* ------------------------------------------------------------------------
\* the lookup of the identifier string s
Lookup(s) ==
    /\ ident' = s
    /\ key' = Normalize(s)
    /\ found' = FindProduct(catalog, s)

InitNorm ==
    /\ NoDesk
    /\ Serving
    /\ ident \in SeedIdents
    /\ key = Normalize(ident)
    /\ found = FindProduct(catalog, ident)
    /\ edits = 0

\* the lookup of a rewriting s of ident
Rewrite(s) ==
    /\ edits < MaxEdits
    /\ edits' = edits + 1
    /\ Lookup(s)
    /\ UNCHANGED << desk, boot, catalog, store_name, running, pc, request, locals, history >>

\* a non-alphanumeric character is taken out of ident
StripPunct == \E i \in DOMAIN ident : ~IsAlnum(ident[i]) /\ Rewrite(RemoveAt(ident, i))

\* a non-alphanumeric character is put into ident
InsertPunct == \E i \in 0..Len(ident), c \in PunctChars : Rewrite(InsertAt(ident, i, c))

\* a letter of ident changes case
SwapCase ==
    \E i \in DOMAIN ident :
        IsLetter(ident[i]) /\ Rewrite([ident EXCEPT ![i] = OtherCase(ident[i])])

\* the normalised key is looked up in its turn
Renormalize == Rewrite(key)

NextNorm == StripPunct \/ InsertPunct \/ SwapCase \/ Renormalize

SpecNorm == InitNorm /\ [][NextNorm]_vars

\* ------------------------------------------------------------------------
\* Properties
\* ------------------------------------------------------------------------
StageOrder == << "EXTRACTION", "RETRIEVAL", "SYNTHESIS_PREP", "SYNTHESIS", "FORMAT" >>

Started(r) == pc[r] # "idle"
Terminated(r) == pc[r] \in {"DONE", "FAILED"}
Entered(r, stage) == stage \in Range(trace[r])

\* the requests a run may carry, and per request what the matcher resolves
\* for its query and the strategy its query selects (computed once)
KnownRequests == ChatRequests \cup WordRequests
ResolvedOf == [req \in KnownRequests |-> FindProduct(LoadedCatalog, req.query)]
StrategyOf == [req \in KnownRequests |-> SelectSystemPrompt(req.query)]

\* the lists file_search can return, and per request and list the prompt and
\* the sources of a run alone (computed once)
UnstructuredOf == [resp \in SearchResponses |-> FileSearchResults(resp, SearchMaxResults)]
UnstructuredLists == {<< >>} \cup {UnstructuredOf[resp] : resp \in SearchResponses}
ContextOf ==
    [req \in KnownRequests |-> [un \in UnstructuredLists |->
        [structured |-> Structured(ResolvedOf[req]), unstructured |-> un]]]
PromptOf ==
    [req \in KnownRequests |-> [un \in UnstructuredLists |->
        BuildPrompt(req.query, ContextOf[req][un])]]
SourcesOf ==
    [req \in KnownRequests |-> [un \in UnstructuredLists |->
        ExtractSources(ContextOf[req][un])]]

\* what the matcher resolves for the query of run r
Resolved(r) == ResolvedOf[request[r]]

\* the catalog product with model number m
CatalogProduct(m) == CHOOSE p \in Range(LoadedCatalog) : p.model_number = m

SearchFailed(r) ==
    search_response[r] # None /\ search_response[r].kind \in {"api_error", "exception"}

GenerationFailed(r) == gen_response[r] # None /\ gen_response[r].kind = "error"

GenerationWithoutText(r) ==
    gen_response[r] # None /\ gen_response[r].kind = "ok" /\ gen_response[r].text = None

Ok200(r) == http[r] = << [status |-> 200, body |-> final_output[r]] >>
Error500(r) == http[r] = << [status |-> 500, body |-> None] >>

\* C1: the stages of a run are entered in the order extraction, retrieval,
\* strategy selection, generation, formatting, each at most once and never
\* an earlier one again; a run rests only at the search call, and ends only
\* in DONE with a result returned or in FAILED with an error raised.
C1_StageOrder ==
    \A r \in Runs :
        /\ IsPrefix(trace[r], StageOrder)
        /\ pc[r] \in {"idle", "EXTRACTION", "RETRIEVAL", "RETRIEVAL_WAIT", "SYNTHESIS_PREP",
                      "SYNTHESIS", "SYNTHESIS_WAIT", "FORMAT", "DONE", "FAILED"}
        /\ pc[r] = "SYNTHESIS_WAIT" =>
               trace[r] = << "EXTRACTION", "RETRIEVAL", "SYNTHESIS_PREP", "SYNTHESIS" >>
        /\ pc[r] = "idle" => trace[r] = << >>
        /\ pc[r] \in Range(StageOrder) => pc[r] = StageOrder[Len(trace[r]) + 1]
        /\ pc[r] = "RETRIEVAL_WAIT" => trace[r] = << "EXTRACTION", "RETRIEVAL" >>
        /\ pc[r] = "DONE" => trace[r] = StageOrder /\ final_output[r] # None /\ Ok200(r)
        /\ pc[r] = "FAILED" => final_output[r] = None /\ Error500(r)
        /\ http[r] # << >> => Terminated(r)
        /\ (Started(r) /\ ~Terminated(r)) => (running = r \/ pc[r] = "RETRIEVAL_WAIT")

C1_Witness ==
    \E r, s \in Runs :
        /\ pc[r] = "DONE" /\ trace[r] = StageOrder
        /\ pc[s] = "FAILED"

\* the retrieval context and the generation request of run r when its
\* unstructured part is un
ContextWith(r, un) == ContextOf[request[r]][un]

GenerationRequestWith(r, un) ==
    [model |-> ModelName(request[r].model_mode),
     contents |-> PromptOf[request[r]][un],
     config |-> GenerationConfig(request[r].model_mode, StrategyOf[request[r]])]

\* C2 as stated: a run whose search call failed ends DONE with a successful
\* result, after a generation call made with unstructured == [].
C2_AsStated ==
    \A r \in Runs :
        (SearchFailed(r) /\ Terminated(r)) =>
            /\ retrieval_context[r].unstructured = << >>
            /\ gen_requests[r] = << GenerationRequestWith(r, << >>) >>
            /\ pc[r] = "DONE"
            /\ Ok200(r)

\* C2, amended: a failure of the search call (API error or any other
\* exception) does not abort the run: retrieval yields unstructured == [],
\* the run goes on to strategy selection, the generation call is made with
\* that context, and the run ends DONE with a successful result unless the
\* generation call itself fails or returns no text.
C2_DegradeNotFail ==
    \A r \in Runs :
        SearchFailed(r) =>
            /\ retrieval_context[r].unstructured = << >>
            /\ pc[r] \in {"SYNTHESIS_PREP", "SYNTHESIS", "SYNTHESIS_WAIT", "FORMAT", "DONE",
                         "FAILED"}
            /\ Entered(r, "SYNTHESIS") => gen_requests[r] = << GenerationRequestWith(r, << >>) >>
            /\ pc[r] = "FAILED" =>
                   Entered(r, "SYNTHESIS") /\ (GenerationFailed(r) \/ GenerationWithoutText(r))
            /\ (Terminated(r) /\ ~GenerationFailed(r) /\ ~GenerationWithoutText(r)) =>
                   pc[r] = "DONE" /\ Ok200(r)

C2_Witness ==
    \E r, s \in Runs :
        /\ SearchFailed(r) /\ search_response[r].kind = "api_error"
        /\ pc[r] = "DONE" /\ Ok200(r) /\ final_output[r].sources = << >>
        /\ SearchFailed(s) /\ search_response[s].kind = "exception"
        /\ pc[s] = "DONE"

\* C3: a run whose generation call fails ends FAILED: formatting is never
\* entered, no result is produced, the generation call was made exactly
\* once, and the caller got exactly one response, a 500.
C3_SynthesisFailure ==
    \A r \in Runs :
        GenerationFailed(r) =>
            /\ pc[r] = "FAILED"
            /\ ~Entered(r, "FORMAT")
            /\ final_output[r] = None
            /\ llm_response[r] = None
            /\ Len(gen_requests[r]) = 1
            /\ Len(http[r]) = 1
            /\ http[r][1].status = 500

C3_Witness ==
    \E r \in Runs : GenerationFailed(r) /\ pc[r] = "FAILED" /\ Error500(r)

NoMatchFields(o) ==
    o.matched_product = None /\ o.confidence = 0 /\ o.media_assets = None

\* C4 as stated: a run in which the matcher resolves no product yields
\* matched_product null, confidence 0.0, media_assets null and never an
\* exception.
C4_AsStated ==
    \A r \in Runs :
        (Terminated(r) /\ Resolved(r) = None) =>
            pc[r] = "DONE" /\ NoMatchFields(final_output[r])

\* C4, amended: a run in which the matcher resolves no product raises
\* nothing on that account; whatever the search returned, its result has
\* matched_product null, confidence 0.0 and media_assets null, and it ends
\* FAILED only when the generation call fails or returns no text.
C4_NoMatchSafety ==
    \A r \in Runs :
        (Started(r) /\ Resolved(r) = None) =>
            /\ Entered(r, "EXTRACTION") => product_context[r] = None
            /\ pc[r] = "DONE" =>
                   /\ NoMatchFields(final_output[r])
                   /\ NoMatchFields(http[r][1].body)
            /\ pc[r] = "FAILED" => (GenerationFailed(r) \/ GenerationWithoutText(r))

C4_Witness ==
    \E r, s \in Runs :
        /\ pc[r] = "DONE" /\ Resolved(r) = None
        /\ Truthy(retrieval_context[r].unstructured)
        /\ NoMatchFields(final_output[r])
        /\ pc[s] = "DONE" /\ Resolved(s) = None
        /\ SearchFailed(s)

\* C5: in a successful result a non-null matched_product comes with non-null
\* media_assets, whose specs are non-empty exactly when the matched catalog
\* product has specs; a null matched_product comes with null media_assets.
C5_FusionConsistency ==
    \A r \in Runs :
        pc[r] = "DONE" =>
            LET o == final_output[r]
            IN  /\ o.matched_product # None =>
                       /\ o.media_assets # None
                       /\ Truthy(o.media_assets.specs)
                              <=> Truthy(CatalogProduct(o.matched_product.str).specs)
                /\ o.matched_product = None => o.media_assets = None

C5_Witness ==
    \E r, s \in Runs :
        /\ pc[r] = "DONE" /\ final_output[r].matched_product = Str(ModelCP)
        /\ Truthy(final_output[r].media_assets.specs)
        /\ pc[s] = "DONE" /\ final_output[s].matched_product = Str(ModelBN)
        /\ ~Truthy(final_output[s].media_assets.specs)

\* C6: the structured part of the retrieval context is populated only when
\* the matcher resolved a product for the run's query, and then with the
\* specs, media and documents of that catalog product; otherwise it is
\* empty.
C6_StructuredFromResolved ==
    \A r \in Runs :
        retrieval_context[r] # None =>
            LET st == retrieval_context[r].structured
                m == Resolved(r)
            IN  IF m = None
                THEN product_context[r] = None /\ st = EmptyDict
                ELSE /\ product_context[r] = m
                     /\ st = [specs |-> CatalogProduct(m.model_number).specs,
                              media |-> CatalogProduct(m.model_number).media,
                              documents |-> CatalogProduct(m.model_number).documents]

C6_Witness ==
    \E r, s \in Runs :
        /\ retrieval_context[r] # None /\ Resolved(r) # None
        /\ Resolved(r).model_number = ModelBN
        /\ retrieval_context[r].structured.documents = << >>
        /\ retrieval_context[s] # None /\ Resolved(s) = None
        /\ retrieval_context[s].structured = EmptyDict

\* C7: a search request carries the matched product's model number as its
\* filter hint exactly when the matcher resolved a product for the run, and
\* the query alone otherwise; its result cap is 5 either way.
C7_TargetedSearch ==
    \A r \in Runs :
        \A i \in DOMAIN search_requests[r] :
            LET q == search_requests[r][i]
                m == Resolved(r)
            IN  /\ q.top_k = 5
                /\ IF m # None
                   THEN /\ q.contents = m.model_number \o << " " >> \o request[r].query
                        /\ q.contents # request[r].query
                   ELSE q.contents = request[r].query

C7_Witness ==
    \E r, s \in Runs :
        /\ Len(search_requests[r]) = 1 /\ Resolved(r) # None
        /\ IsPrefix(ModelCP, search_requests[r][1].contents)
        /\ Len(search_requests[s]) = 1 /\ Resolved(s) = None
        /\ search_requests[s][1].contents = request[s].query

\* C8 as stated: every run issues exactly one search request and at most
\* one generation request, the latter only after the former has completed.
C8_AsStated ==
    \A r \in Runs :
        Terminated(r) =>
            /\ Len(search_requests[r]) = 1
            /\ Len(gen_requests[r]) <= 1
            /\ gen_requests[r] # << >> => search_response[r] # None

\* C8, amended: a run issues exactly one search request when a File Search
\* store is configured and none when it is not, and at most one generation
\* request, which is issued only after the search request of the run, if
\* any, has returned results or failed.
C8_OneCallEach ==
    \A r \in Runs :
        /\ Len(search_requests[r]) <= 1
        /\ Entered(r, "RETRIEVAL") =>
               Len(search_requests[r]) = (IF store_name = "" THEN 0 ELSE 1)
        /\ Len(gen_requests[r]) <= 1
        /\ Terminated(r) => Len(gen_requests[r]) = 1
        /\ gen_requests[r] # << >> =>
               /\ Entered(r, "RETRIEVAL")
               /\ search_requests[r] # << >> => search_response[r] # None

C8_Witness ==
    \E r \in Runs :
        /\ pc[r] = "DONE"
        /\ Len(search_requests[r]) = 1 /\ search_response[r] # None
        /\ Len(gen_requests[r]) = 1

\* the result run r produces alone, given what the collaborators answered it
AloneUnstructured(r) ==
    IF store_name = "" THEN << >>
    ELSE UnstructuredOf[search_response[r]]

AloneResponse(r) ==
    [response |-> gen_response[r].text,
     sources |-> SourcesOf[request[r]][AloneUnstructured(r)],
     model_used |-> ModelName(request[r].model_mode)]

AloneOutput(r) == FormatOutput(AloneResponse(r), Resolved(r))

\* C9: runs are isolated.  Under every interleaving of the runs at their
\* search calls, each value a run computes (matched product, retrieval
\* context, selected strategy, generation request, model used, sources and
\* the result sent to the caller) is the one the run computes alone from its
\* own request and its own collaborator responses, and the catalog and the
\* service configuration stay as loaded.
C9_Isolation ==
    /\ catalog = LoadedCatalog
    /\ store_name \in StoreNames
    /\ \A r \in Runs :
        /\ Entered(r, "EXTRACTION") => product_context[r] = Resolved(r)
        /\ pc[r] \in {"SYNTHESIS_PREP", "SYNTHESIS", "SYNTHESIS_WAIT", "FORMAT", "DONE"} =>
               retrieval_context[r] = ContextWith(r, AloneUnstructured(r))
        /\ Entered(r, "SYNTHESIS_PREP") => system_prompt[r] = StrategyOf[request[r]]
        /\ Entered(r, "SYNTHESIS") =>
               gen_requests[r] = << GenerationRequestWith(r, AloneUnstructured(r)) >>
        /\ pc[r] \in {"FORMAT", "DONE"} => llm_response[r] = AloneResponse(r)
        /\ pc[r] = "DONE" => final_output[r] = AloneOutput(r) /\ Ok200(r)

\* run r is about to format its result, having resumed from its search call
\* while run s, started in the meantime with another request, waits at its own
C9_Witness ==
    \E r, s \in Runs :
        /\ pc[r] = "FORMAT" /\ running = r
        /\ pc[s] = "RETRIEVAL_WAIT"
        /\ search_response[r] # None
        /\ request[r] # request[s]
        /\ Resolved(r) # Resolved(s)

\* C10: a query whose lower-cased text contains a troubleshooting keyword
\* and a comparison keyword selects the comparison strategy, and the
\* generation call is given the comparison instruction.
C10_ComparisonOverrides ==
    \A r \in Runs :
        (Entered(r, "SYNTHESIS_PREP")
            /\ IsTroubleshooting(request[r].query) /\ IsComparison(request[r].query)) =>
                /\ system_prompt[r] = ComparisonPrompt
                /\ \A i \in DOMAIN gen_requests[r] :
                       gen_requests[r][i].config.system_instruction = ComparisonPrompt

C10_Witness ==
    \E r \in Runs :
        /\ pc[r] = "DONE"
        /\ IsTroubleshooting(request[r].query) /\ IsComparison(request[r].query)
        /\ system_prompt[r] = ComparisonPrompt
        /\ gen_requests[r][1].config.system_instruction = ComparisonPrompt

\* the troubleshooting keywords as the specification lists them
ListedTroubleshootingKeywords ==
    << <<"n","o","t"," ","w","o","r","k","i","n","g">>, <<"b","r","o","k","e","n">>,
       <<"l","e","a","k">>, <<"i","s","s","u","e">>, <<"p","r","o","b","l","e","m">>,
       <<"f","i","x">>, <<"r","e","p","a","i","r">> >>

\* the strategy the table gives for a query, from its text alone
ListedStrategy(query) ==
    LET q == Lower(query)
    IN  IF ContainsAny(q, ComparisonKeywords) THEN ComparisonPrompt
        ELSE IF ContainsAny(q, ListedTroubleshootingKeywords) THEN TroubleshootingPrompt
        ELSE SynthesisPrompt

ListedStrategyOf == [req \in KnownRequests |-> ListedStrategy(req.query)]

\* C11: the selected strategy is general when the lower-cased query contains
\* no keyword of either set and troubleshooting when it contains a
\* troubleshooting keyword and no comparison keyword; it is a function of the
\* query text alone (whatever the mode, the matched product and the retrieved
\* context), and the generation call is given the instruction of the selected
\* strategy.
C11_StrategyTable ==
    \A r \in Runs :
        Entered(r, "SYNTHESIS_PREP") =>
            LET q == Lower(request[r].query)
                trouble == ContainsAny(q, ListedTroubleshootingKeywords)
                compare == ContainsAny(q, ComparisonKeywords)
            IN  /\ (~trouble /\ ~compare) => system_prompt[r] = SynthesisPrompt
                /\ (trouble /\ ~compare) => system_prompt[r] = TroubleshootingPrompt
                /\ system_prompt[r] = ListedStrategyOf[request[r]]
                /\ \A i \in DOMAIN gen_requests[r] :
                       gen_requests[r][i].config.system_instruction = system_prompt[r]

\* a troubleshooting query typed in capitals, in reasoning mode, for which no
\* product is matched and nothing was retrieved
C11_Witness ==
    \E r \in Runs :
        /\ pc[r] = "DONE"
        /\ request[r].model_mode = "reasoning"
        /\ request[r].query # Lower(request[r].query)
        /\ product_context[r] = None
        /\ retrieval_context[r].unstructured = << >>
        /\ system_prompt[r] = TroubleshootingPrompt
        /\ gen_requests[r][1].config.system_instruction = TroubleshootingPrompt

\* the number of entries of seq equal to x, and the place of the first one
Count(seq, x) == Cardinality({ i \in DOMAIN seq : seq[i] = x })
FirstIndex(seq, x) == CHOOSE i \in DOMAIN seq : seq[i] = x /\ \A j \in 1..(i - 1) : seq[j] # x

\* the titles of the excerpts of run r, in retrieval order
ExcerptTitles(r) ==
    [i \in DOMAIN retrieval_context[r].unstructured |->
        retrieval_context[r].unstructured[i].title]

\* C12: sources are de-duplicated by title: the title of every unstructured
\* excerpt of a run occurs exactly once in the sources of the run's result,
\* however many excerpts share it.
C12_SourcesDedup ==
    \A r \in Runs :
        pc[r] = "DONE" =>
            \A i \in DOMAIN ExcerptTitles(r) :
                /\ Count(final_output[r].sources, ExcerptTitles(r)[i]) = 1
                /\ Count(http[r][1].body.sources, ExcerptTitles(r)[i]) = 1

C12_Witness ==
    \E r \in Runs :
        /\ pc[r] = "DONE"
        /\ \E i, j \in DOMAIN ExcerptTitles(r) :
               i < j /\ ExcerptTitles(r)[i] = ExcerptTitles(r)[j]
        /\ Count(final_output[r].sources, "Manual") = 1
        /\ Count(ExcerptTitles(r), "Manual") = 3

\* the titles scanned for the sources of run r: the excerpts in retrieval
\* order, then the documents of the matched catalog product
ScannedTitles(r) ==
    ExcerptTitles(r) \o
    (IF Resolved(r) = None THEN << >>
     ELSE LET docs == CatalogProduct(Resolved(r).model_number).documents
          IN  [i \in DOMAIN docs |-> docs[i].title])

\* C13: the sources of a result contain no entry twice and are in first-seen
\* order: each entry is a title met when scanning the excerpts in retrieval
\* order and then the matched product's documents, every excerpt title and
\* every non-empty document title is there, and the entries stand in the
\* order in which their titles are first met.
C13_SourcesFirstSeen ==
    \A r \in Runs :
        pc[r] = "DONE" =>
            LET src == final_output[r].sources
                scanned == ScannedTitles(r)
            IN  /\ \A i, j \in DOMAIN src : src[i] = src[j] => i = j
                /\ \A i \in DOMAIN src : src[i] \in Range(scanned)
                /\ \A i \in DOMAIN ExcerptTitles(r) : ExcerptTitles(r)[i] \in Range(src)
                /\ \A i \in DOMAIN scanned : scanned[i] # "" => scanned[i] \in Range(src)
                /\ \A i, j \in DOMAIN src :
                       i < j => FirstIndex(scanned, src[i]) < FirstIndex(scanned, src[j])

\* excerpts with a repeated title, then a document whose title repeats an
\* excerpt's, one without a title and one with a new title
C13_Witness ==
    \E r \in Runs :
        /\ pc[r] = "DONE"
        /\ Resolved(r) # None /\ Resolved(r).model_number = ModelCP
        /\ ScannedTitles(r) = << "Manual", "Unknown", "Manual", "Warranty", "Manual",
                                 "Manual", "", "Spec Sheet" >>
        /\ final_output[r].sources = << "Manual", "Unknown", "Warranty", "Spec Sheet" >>

\* C14: when every collaborator call returns or fails, every started run
\* ends in DONE or FAILED; no stage is entered twice and nothing is retried,
\* so a run takes at most one step per stage and one per collaborator call.
C14_Termination ==
    /\ [](\A r \in Runs :
            /\ \A i, j \in DOMAIN trace[r] : trace[r][i] = trace[r][j] => i = j
            /\ Len(trace[r]) <= Len(StageOrder)
            /\ Len(search_requests[r]) <= 1
            /\ Len(gen_requests[r]) <= 1
            /\ Len(http[r]) <= 1)
    /\ \A r \in Runs : (pc[r] # "idle") ~> (pc[r] \in {"DONE", "FAILED"})

\* every run has ended, one of them after a failed search call and one of
\* them on a failed generation call
C14_Witness ==
    /\ \A r \in Runs : Terminated(r)
    /\ \E r \in Runs : SearchFailed(r) /\ pc[r] = "DONE"
    /\ \E r \in Runs : GenerationFailed(r) /\ pc[r] = "FAILED"

\* C15: when GOOGLE_API_KEY is missing or the catalog cannot be loaded,
\* startup is aborted: the application never reaches the state in which it
\* serves requests, the orchestrator is never made available, and no stage
\* of any pipeline run is ever executed nor any collaborator called.
C15_StartupAborts ==
    (env.google_api_key = "" \/ ~env.data_ok) =>
        /\ lifespan # "serving"
        /\ ~services.orchestrator
        /\ running = 0
        /\ \A r \in Runs :
            /\ pc[r] \in {"idle", "FAILED"}
            /\ trace[r] = << >>
            /\ search_requests[r] = << >>
            /\ gen_requests[r] = << >>
            /\ final_output[r] = None
            /\ \A i \in DOMAIN http[r] : http[r][i].status = 500

\* startup aborted on the catalog, the credential being there
C15_Witness ==
    /\ lifespan = "aborted"
    /\ env.google_api_key # ""
    /\ ~env.data_ok
    /\ ~services.product_db

\* the body run r received is outside what ChatRequest admits: a mode that
\* is neither flash nor reasoning, or a query shorter than 1 or longer than
\* 2000 characters (or none)
Inadmissible(body) ==
    \/ "model_mode" \in DOMAIN body /\ body.model_mode \notin {"flash", "reasoning"}
    \/ "query" \notin DOMAIN body
    \/ Len(body.query) < 1
    \/ Len(body.query) > 2000

\* C16: a chat request whose mode is neither flash nor reasoning, or whose
\* query is not 1..2000 characters long, is rejected before the pipeline
\* runs: no stage is entered for it, the matcher, the search collaborator and
\* the generation collaborator are never called, and the caller gets a 422.
C16_RejectedBeforePipeline ==
    \A r \in Runs :
        (request[r] # None /\ Inadmissible(request[r])) =>
            /\ pc[r] = "REJECTED"
            /\ trace[r] = << >>
            /\ product_context[r] = None
            /\ search_requests[r] = << >>
            /\ gen_requests[r] = << >>
            /\ final_output[r] = None
            /\ http[r] = << [status |-> 422, body |-> None] >>

\* a query of 2001 characters was rejected
C16_Witness ==
    \E r \in Runs :
        /\ pc[r] = "REJECTED"
        /\ "query" \in DOMAIN request[r]
        /\ Len(request[r].query) = MaxQueryLength + 1
        /\ request[r].model_mode \in ModePattern
        /\ http[r][1].status = 422

\* a query of 2000 characters went through the pipeline
C16_LongestQueryServed ==
    \E r \in Runs : pc[r] = "DONE" /\ Len(request[r].query) = MaxQueryLength

\* C17 as stated: a run suspends at the search call and at the generation
\* call and nowhere else: a run that waits on either call has given the event
\* loop up, so that other runs can take steps, and a started run that has not
\* ended and does not have the event loop waits on one of the two calls.
C17_AsStated ==
    \A r \in Runs :
        /\ pc[r] \in {"RETRIEVAL_WAIT", "SYNTHESIS_WAIT"} => running # r
        /\ (Started(r) /\ ~Terminated(r) /\ running # r) =>
               pc[r] \in {"RETRIEVAL_WAIT", "SYNTHESIS_WAIT"}

\* run r waits for the generation collaborator and holds the event loop,
\* while run s, which waits at its search call, cannot be resumed
C17_Witness ==
    \E r, s \in Runs :
        /\ pc[r] = "SYNTHESIS_WAIT" /\ running = r
        /\ Len(gen_requests[r]) = 1 /\ gen_response[r] = None
        /\ pc[s] = "RETRIEVAL_WAIT"
        /\ ~ENABLED (\E resp \in SearchResponses : SearchReturns(s, resp))

\* ------------------------------------------------------------------------
\* C18
\* ------------------------------------------------------------------------
\* the catalog products that query names: those whose identifier is a token
\* of the query as written
NamedVerbatim(cat, query) ==
    { i \in DOMAIN cat : \E tok \in Tokens(query) : tok.text = cat[i].model_number }

\* the catalog products that a token of query resolves to once normalised
NamedAtAll(cat, query) ==
    { i \in DOMAIN cat :
        \E tok \in Tokens(query) : Normalize(tok.text) = Normalize(cat[i].model_number) }

NamedVerbatimOf == [req \in KnownRequests |-> NamedVerbatim(LoadedCatalog, req.query)]
NamedAtAllOf == [req \in KnownRequests |-> NamedAtAll(LoadedCatalog, req.query)]

IdShaped(s) == \A i \in DOMAIN s : IsIdChar(s[i])

\* C19: normalisation ignores punctuation and case.  A rewriting of an
\* identifier string that changes only non-alphanumeric characters or letter
\* case leaves the normalised key unchanged, and with it the product that an
\* identifier-shaped string resolves to; 10.FGC.4003CP, 10-FGC-4003-CP and
\* 10FGC4003CP have one key and resolve to one product; and normalising a
\* normalised key gives the key back.
C19_NormalizeInvariance ==
    /\ [][ /\ key' = key
           /\ (IdShaped(ident) /\ IdShaped(ident')) => found' = found ]_vars
    /\ [](ident \in { ModelCP, IdentCPHyphens, IdentCPBare } =>
              /\ key = IdentCPBare
              /\ found # None
              /\ found.model_number = ModelCP)
    /\ [](key = Normalize(ident) /\ Normalize(key) = key)

\* 10-FGC-4003-CP rewritten twice (a hyphen out, a letter in lower case):
\* the string differs from its key and still resolves to 10.FGC.4003CP
C19_Witness ==
    /\ edits = MaxEdits
    /\ Len(ident) = Len(IdentCPHyphens) - 1
    /\ \E i \in DOMAIN ident : ident[i] \in LowerSet
    /\ \E i \in DOMAIN ident : ident[i] = "-"
    /\ key = IdentCPBare
    /\ found # None
    /\ found.model_number = ModelCP
    /\ found.matched_confidence = 100

\* ------------------------------------------------------------------------
\* C20
\* ------------------------------------------------------------------------
\* the search call of run r has returned
SearchReturned(r) == search_response[r] # None

\* the search collaborator answered run r without any chunk
EmptyOutcome(r) ==
    /\ SearchReturned(r)
    /\ search_response[r].kind = "ok"
    /\ search_response[r].chunks = << >>

\* C20: the unstructured list handed to synthesis is exactly the list the
\* search step produced: entry i is made from the collaborator's i-th chunk
\* (nothing re-sorted, nothing filtered), there are never more entries than
\* the maximum the coordinator asked for (5), and the generation request is
\* built from that list.  An empty search outcome gives the empty list and
\* the run goes on to synthesis.
C20_UnstructuredAsProduced ==
    \A r \in Runs :
        (SearchReturned(r) /\ ~FileSearchRaises(search_response[r])) =>
            LET resp == search_response[r]
                un == retrieval_context[r].unstructured
            IN  /\ un = UnstructuredOf[resp]
                /\ Len(un) <= SearchMaxResults
                /\ Len(un) <= search_requests[r][1].top_k
                /\ resp.kind = "ok" =>
                       /\ Len(un) = IF Len(resp.chunks) < SearchMaxResults
                                    THEN Len(resp.chunks) ELSE SearchMaxResults
                       /\ \A i \in DOMAIN un : un[i] = ChunkResult(resp.chunks[i])
                /\ Entered(r, "SYNTHESIS") =>
                       gen_requests[r] = << GenerationRequestWith(r, UnstructuredOf[resp]) >>
                /\ EmptyOutcome(r) =>
                       /\ un = << >>
                       /\ pc[r] \in {"SYNTHESIS_PREP", "SYNTHESIS", "SYNTHESIS_WAIT", "FORMAT",
                                    "DONE", "FAILED"}
                       /\ pc[r] = "FAILED" =>
                              Entered(r, "SYNTHESIS")
                              /\ (GenerationFailed(r) \/ GenerationWithoutText(r))

\* one run served after a search that returned six chunks, of which five
\* were handed on in order, and one served after an empty search outcome
C20_Witness ==
    \E r, s \in Runs :
        /\ pc[r] = "DONE"
        /\ SearchReturned(r)
        /\ search_response[r].kind = "ok"
        /\ Len(search_response[r].chunks) = 6
        /\ Len(retrieval_context[r].unstructured) = 5
        /\ retrieval_context[r].unstructured[2].title = "Unknown"
        /\ retrieval_context[r].unstructured[5].title = "Manual"
        /\ pc[s] = "DONE" /\ Ok200(s)
        /\ EmptyOutcome(s)
        /\ retrieval_context[s].unstructured = << >>

\* ------------------------------------------------------------------------
\* C21
\* ------------------------------------------------------------------------
\* the media entry is represented in the prompt: a record by its title and
\* url, a bare string by its value under the section's label
Represented(entry, label, prompt) ==
    IF entry.kind = "dict"
    THEN \E k \in DOMAIN prompt : prompt[k] = Part("line", << entry.title, entry.url >>)
    ELSE \E k \in DOMAIN prompt : prompt[k] = Part("line", << label, entry.value >>)

\* every entry of a section is represented in the prompt
AllRepresented(entries, label, prompt) ==
    \A i \in DOMAIN entries : Represented(entries[i], label, prompt)

\* C21: for a matched product whose videos and images are records or bare
\* strings in any mixture, building the prompt and the output never raises
\* (the run fails only if generation fails), every entry is represented in
\* the prompt, and the output carries the entries as the catalog has them.
C21_MediaShapes ==
    \A r \in Runs :
        (pc[r] \notin {"idle", "EXTRACTION"} /\ product_context[r] # None) =>
            LET media == product_context[r].media
            IN  /\ media = catalog[1].media
                /\ Entered(r, "SYNTHESIS") =>
                       /\ Len(gen_requests[r]) = 1
                       /\ AllRepresented(media.videos, "Video", gen_requests[r][1].contents)
                       /\ AllRepresented(media.images, "Image", gen_requests[r][1].contents)
                /\ pc[r] = "FAILED" =>
                       Entered(r, "SYNTHESIS")
                       /\ (GenerationFailed(r) \/ GenerationWithoutText(r))
                /\ pc[r] = "DONE" =>
                       /\ Ok200(r)
                       /\ final_output[r].media_assets.videos = media.videos
                       /\ final_output[r].media_assets.images = media.images

\* a served run for a product whose videos are a bare string followed by a
\* record and whose images are a record followed by a bare string
C21_Witness ==
    \E r \in Runs :
        /\ pc[r] = "DONE" /\ Ok200(r)
        /\ product_context[r] # None
        /\ Len(product_context[r].media.videos) = 2
        /\ product_context[r].media.videos[1].kind = "str"
        /\ product_context[r].media.videos[2].kind = "dict"
        /\ Len(product_context[r].media.images) = 2
        /\ product_context[r].media.images[1].kind = "dict"
        /\ product_context[r].media.images[2].kind = "str"
        /\ \E k \in DOMAIN gen_requests[r][1].contents :
               gen_requests[r][1].contents[k] = Part("line", << "Video", "clip.mp4" >>)

\* ------------------------------------------------------------------------
\* C22
\* ------------------------------------------------------------------------
\* add_private_note has returned
NoteReturned == desk_pc = "done" /\ ticket_outcome # None

\* the ticketing system answered with status 200 or 201
StatusOk(outcome) == outcome.kind = "response" /\ outcome.status \in {200, 201}

\* C22 as stated: add_private_note never raises; the record it returns has
\* success true exactly when the HTTP status is 200 or 201, note_id non-null
\* only when success is true, and error non-null exactly when success is
\* false.
C22_AsStated ==
    NoteReturned =>
        /\ note_result # None
        /\ note_result.success <=> StatusOk(ticket_outcome)
        /\ note_result.note_id # None => note_result.success
        /\ note_result.error # None <=> ~note_result.success

\* what holds of add_private_note: it never raises, note_id is non-null only
\* on success, error is non-null exactly on failure, success implies a
\* status 200 or 201, and a status 200 or 201 whose body is a JSON object
\* gives success
C22_NoteRecord ==
    NoteReturned =>
        /\ note_result # None
        /\ note_result.success => StatusOk(ticket_outcome)
        /\ (StatusOk(ticket_outcome)
            /\ ticket_outcome.body \in {"object_with_id", "object_without_id"}) =>
               note_result.success
        /\ note_result.note_id # None => note_result.success
        /\ note_result.error # None <=> ~note_result.success
        /\ reply.status = 200
        /\ reply.body.success = note_result.success

\* the ticketing system answered 201 with a body that is not JSON: the note
\* exists, and add_private_note reports a failure
C22_Witness ==
    /\ NoteReturned
    /\ ticket_outcome.kind = "response"
    /\ ticket_outcome.status = 201
    /\ ticket_outcome.body = "not_json"
    /\ ~note_result.success
    /\ note_result.error # None

\* ------------------------------------------------------------------------
\* C23
\* ------------------------------------------------------------------------
\* the generation request of run r has been made
Generating(r) == Len(gen_requests[r]) >= 1

\* the sampling parameters of a configuration other than the temperature
OtherSampling(config) ==
    [top_p |-> config.top_p, top_k |-> config.top_k,
     max_output_tokens |-> config.max_output_tokens]

\* C23: model and sampling parameters follow the mode.  A run in mode flash
\* calls the flash model, a run in mode reasoning the pro model; the
\* temperature of a flash run is strictly lower than that of a reasoning
\* run and every other sampling parameter is the same; and model_used of
\* the result is the model that was called.
C23_ModeParameters ==
    \A r \in Runs :
        Generating(r) =>
            /\ request[r].model_mode = "flash" =>
                   gen_requests[r][1].model = "gemini-2.5-flash"
            /\ request[r].model_mode = "reasoning" =>
                   gen_requests[r][1].model = "gemini-2.5-pro"
            /\ \A s \in Runs :
                   (/\ Generating(s)
                    /\ request[r].model_mode = "flash"
                    /\ request[s].model_mode = "reasoning") =>
                       /\ gen_requests[r][1].config.temperature
                              < gen_requests[s][1].config.temperature
                       /\ OtherSampling(gen_requests[r][1].config)
                              = OtherSampling(gen_requests[s][1].config)
            /\ llm_response[r] # None =>
                   llm_response[r].model_used = gen_requests[r][1].model
            /\ pc[r] = "DONE" =>
                   final_output[r].model_used = gen_requests[r][1].model

\* a flash run and a reasoning run, both served: the results name the flash
\* and the pro model
C23_Witness ==
    \E r, s \in Runs :
        /\ pc[r] = "DONE" /\ request[r].model_mode = "flash"
        /\ final_output[r].model_used = "gemini-2.5-flash"
        /\ gen_requests[r][1].config.temperature = 20
        /\ pc[s] = "DONE" /\ request[s].model_mode = "reasoning"
        /\ final_output[s].model_used = "gemini-2.5-pro"
        /\ gen_requests[s][1].config.temperature = 40

\* ------------------------------------------------------------------------
\* C24
\* ------------------------------------------------------------------------
\* the prompt carries the general-query instruction
HasGeneralNote(prompt) == \E k \in DOMAIN prompt : prompt[k].part = "general_note"

\* the prompt carries a section of structured product data
HasStructuredData(prompt) ==
    \E k \in DOMAIN prompt :
        prompt[k].part \in {"Product Specifications", "Available Videos", "Available Images",
                           "Available Documents"}

\* C24 as stated: the prompt built for synthesis carries the general-query
\* instruction exactly when no product was identified for the run; when a
\* product was matched the instruction is absent and the product's
\* structured data is included.
C24_AsStated ==
    \A r \in Runs :
        Generating(r) =>
            /\ HasGeneralNote(gen_requests[r][1].contents) <=> product_context[r] = None
            /\ product_context[r] # None =>
                   HasStructuredData(gen_requests[r][1].contents)

\* what holds of _build_prompt: the instruction is present exactly when the
\* run has no product or a product without spec fields, and every structured
\* section that is not empty is included
C24_NoteFollowsSpecs ==
    \A r \in Runs :
        Generating(r) =>
            LET prompt == gen_requests[r][1].contents
                product == product_context[r]
            IN  /\ HasGeneralNote(prompt) <=> (product = None \/ product.specs = << >>)
                /\ product = None => ~HasStructuredData(prompt)
                /\ (product # None /\ product.specs # << >>) =>
                       \E k \in DOMAIN prompt : prompt[k].part = "Product Specifications"
                /\ (product # None /\ product.documents # << >>) =>
                       \E k \in DOMAIN prompt : prompt[k].part = "Available Documents"

\* a run for which 10.FGC.4003BN, a product without spec fields, was
\* matched, and whose prompt tells the model not to give product details
C24_Witness ==
    \E r \in Runs :
        /\ Generating(r)
        /\ product_context[r] # None
        /\ product_context[r].model_number = ModelBN
        /\ product_context[r].specs = << >>
        /\ HasGeneralNote(gen_requests[r][1].contents)

\* ------------------------------------------------------------------------
\* C25
\* ------------------------------------------------------------------------
UnknownMode(mode) == mode \notin {"flash", "reasoning"}

\* C25 as stated: a mode string other than flash or reasoning passed to
\* process_query is handled exactly like flash: the generation request of
\* such a run has the model and the sampling parameters, temperature
\* included, of the generation request of a flash run for the same query.
C25_AsStated ==
    \A r, s \in Runs :
        (/\ Generating(r) /\ Generating(s)
         /\ UnknownMode(request[r].model_mode)
         /\ request[s].model_mode = "flash"
         /\ request[r].query = request[s].query) =>
            /\ gen_requests[r][1].model = gen_requests[s][1].model
            /\ gen_requests[r][1].config = gen_requests[s][1].config

\* what holds of an unknown mode: the model is that of flash, the
\* temperature is that of reasoning, the other parameters are those of both
C25_UnknownModeMixes ==
    \A r, s \in Runs :
        (/\ Generating(r) /\ Generating(s)
         /\ UnknownMode(request[r].model_mode)
         /\ request[r].query = request[s].query) =>
            /\ request[s].model_mode = "flash" =>
                   /\ gen_requests[r][1].model = gen_requests[s][1].model
                   /\ OtherSampling(gen_requests[r][1].config)
                          = OtherSampling(gen_requests[s][1].config)
                   /\ gen_requests[r][1].config.temperature
                          > gen_requests[s][1].config.temperature
            /\ request[s].model_mode = "reasoning" =>
                   /\ gen_requests[r][1].model # gen_requests[s][1].model
                   /\ gen_requests[r][1].config = gen_requests[s][1].config

\* a run in mode "pro" and a run in mode flash for the same query: the same
\* model is called, at temperature 0.4 for "pro" and 0.2 for flash
C25_Witness ==
    \E r, s \in Runs :
        /\ Generating(r) /\ Generating(s)
        /\ request[r].model_mode = "pro"
        /\ request[s].model_mode = "flash"
        /\ request[r].query = request[s].query
        /\ gen_requests[r][1].model = "gemini-2.5-flash"
        /\ gen_requests[s][1].model = "gemini-2.5-flash"
        /\ gen_requests[r][1].config.temperature = 40
        /\ gen_requests[s][1].config.temperature = 20

\* ------------------------------------------------------------------------
\* C26
\* ------------------------------------------------------------------------
\* run r has executed no stage and called no collaborator
NoStage(r) ==
    /\ trace[r] = << >>
    /\ search_requests[r] = << >>
    /\ gen_requests[r] = << >>
    /\ final_output[r] = None

\* C26: at every point of the startup sequence the orchestrator being
\* available implies that the product database is loaded and the generation
\* service initialised; a chat request handled while the orchestrator is
\* not initialised fails with an error response (a 500) and executes no
\* pipeline stage, then or later.
C26_StartupInvariant ==
    /\ [](services.orchestrator =>
              /\ services.product_db
              /\ services.gemini_service
              /\ catalog = LoadedCatalog
              /\ store_name = env.file_search_corpus_id)
    /\ [](~services.orchestrator => \A r \in Runs : NoStage(r) /\ pc[r] \in {"idle", "FAILED"})
    /\ [][ \A r \in Runs :
             /\ (~services.orchestrator /\ pc[r] = "idle" /\ pc'[r] # "idle") =>
                    /\ pc'[r] = "FAILED"
                    /\ http'[r] = << [status |-> 500, body |-> None] >>
                    /\ NoStage(r)'
             /\ (pc[r] = "FAILED" /\ NoStage(r)) =>
                    (pc'[r] = "FAILED" /\ NoStage(r)' /\ http'[r] = http[r]) ]_vars

\* the orchestrator has become available after a chat request was refused
\* during startup: that run stays failed, with a 500 and without any stage
C26_Witness ==
    /\ services.orchestrator
    /\ lifespan = "serving"
    /\ \E r, s \in Runs :
           /\ pc[r] = "FAILED" /\ Error500(r) /\ NoStage(r)
           /\ pc[s] = "DONE"

\* ------------------------------------------------------------------------
\* C27
\* ------------------------------------------------------------------------
\* the call of the endpoint has been answered
Answered(endpoint) ==
    desk_pc = "done" /\ desk_request # None /\ desk_request.endpoint = endpoint

\* no product of the catalog has the identifier, in any spelling
NotInCatalog(model_number) ==
    \A i \in DOMAIN catalog : Normalize(catalog[i].model_number) # Normalize(model_number)

\* C27: the HTTP errors a handler raises keep their status and are never
\* rewritten to 500: POST /api/freshdesk answers 503 and sends no ticketing
\* request when the Freshdesk service is not configured, and
\* GET /api/product/{model_number} answers 404 when the product is not in
\* the catalog (and 200 with the product when it is).
C27_HttpErrorsKept ==
    /\ (Answered("freshdesk") /\ ~freshdesk) =>
           /\ reply.status = 503
           /\ ticket_requests = << >>
           /\ note_result = None
    /\ (Answered("freshdesk") /\ freshdesk) =>
           /\ reply.status = 200
           /\ Len(ticket_requests) = 1
    /\ Answered("product") =>
           /\ NotInCatalog(desk_request.model_number) => reply.status = 404
           /\ (\E i \in DOMAIN catalog : catalog[i].model_number = desk_request.model_number) =>
                  /\ reply.status = 200
                  /\ reply.body.model_number = desk_request.model_number
    /\ desk_pc = "done" => reply.status # 500

\* POST /api/freshdesk answered 503 without the Freshdesk service
C27_Witness ==
    /\ Answered("freshdesk")
    /\ ~freshdesk
    /\ reply = [status |-> 503, body |-> None]
    /\ ticket_requests = << >>

\* ------------------------------------------------------------------------
\* C28
\* ------------------------------------------------------------------------
\* the category parameter selects the filtered branch
Filtered(category) == category # None /\ category.str # ""

\* the number of products that match the category parameter: those of the
\* category, or every product when no category is given
MatchingCount(category) ==
    IF Filtered(category)
    THEN Cardinality({ i \in DOMAIN catalog : Category(catalog[i]) = category.str })
    ELSE Len(catalog)

\* C28 as stated: for GET /api/products with any category (or none) and any
\* limit >= 0, the products list has at most limit entries and total is the
\* number of matching products before the truncation to limit, in the
\* filtered and in the unfiltered branch.
C28_AsStated ==
    Answered("products") =>
        /\ reply.status = 200
        /\ Len(reply.body.products) <= desk_request.limit
        /\ reply.body.total = MatchingCount(desk_request.category)

\* what holds of list_products: the list has at most limit entries; with a
\* category total is the number of products of the category; without one
\* total is the number of entries returned, the smaller of limit and the
\* size of the catalog
C28_TotalOfBranch ==
    Answered("products") =>
        /\ reply.status = 200
        /\ reply.body.limit = desk_request.limit
        /\ Len(reply.body.products) <= desk_request.limit
        /\ Len(reply.body.products) <= MatchingCount(desk_request.category)
        /\ Filtered(desk_request.category) =>
               reply.body.total = MatchingCount(desk_request.category)
        /\ ~Filtered(desk_request.category) =>
               /\ reply.body.total = Len(reply.body.products)
               /\ reply.body.total = IF desk_request.limit < Len(catalog)
                                     THEN desk_request.limit ELSE Len(catalog)

\* GET /api/products?limit=1 over a catalog of three products: one product
\* is listed and total is 1
C28_Witness ==
    /\ Answered("products")
    /\ desk_request.category = None
    /\ desk_request.limit = 1
    /\ Len(catalog) = 3
    /\ Len(reply.body.products) = 1
    /\ reply.body.total = 1

====
